---- MODULE Spec2Model ----
(***************************************************************************)
(* turbotape: records with tainted-field tracking (records.py) and the     *)
(* SQLite-backed item cache (cache.py).                                    *)
(*                                                                         *)
(* Python strings are modelled as sequences of one-character strings so    *)
(* that split('__', 1), replace('_', '-'), strip(), ','.join / split(',')  *)
(* and '-'.join are computed character by character, as the code does.     *)
(***************************************************************************)
EXTENDS Integers, Sequences, FiniteSets, TLC

(***************************************************************************)
(* Bound of the model: the number of items of the remote app.              *)
(***************************************************************************)
MaxItems == 2

ItemIds == 1..MaxItems

\* The one app whose items are edited and cached.
AppId == 1

(***************************************************************************)
(* Strings used by the model.                                              *)
(***************************************************************************)
sN == <<"n">>
sAB == <<"a", "-", "b">>
sA_B == <<"a", "_", "b">>
sNx == <<"n", "_", "_", "x">>
sC == <<"c">>
sM == <<"m">>
sZ == <<"z">>
sX == <<"x">>
sY == <<"y">>
sSpY == <<" ", "y">>
sNone == <<"N", "o", "n", "e">>
sItem_id == <<"i", "t", "e", "m", "_", "i", "d">>

\* modifiers of field descriptors (the part after the first '__')
m_all == <<"a", "l", "l">>
m_values == <<"v", "a", "l", "u", "e", "s">>
m_first == <<"f", "i", "r", "s", "t">>
m_last == <<"l", "a", "s", "t">>
m_start == <<"s", "t", "a", "r", "t">>
m_end == <<"e", "n", "d">>
m_datetime == <<"d", "a", "t", "e", "t", "i", "m", "e">>
m_start_datetime == <<"s", "t", "a", "r", "t", "_", "d", "a", "t", "e", "t", "i", "m", "e">>
m_startdatetime == <<"s", "t", "a", "r", "t", "d", "a", "t", "e", "t", "i", "m", "e">>
m_start_dt == <<"s", "t", "a", "r", "t", "_", "d", "t">>
m_startdt == <<"s", "t", "a", "r", "t", "d", "t">>
m_end_datetime == <<"e", "n", "d", "_", "d", "a", "t", "e", "t", "i", "m", "e">>
m_enddatetime == <<"e", "n", "d", "d", "a", "t", "e", "t", "i", "m", "e">>
m_end_dt == <<"e", "n", "d", "_", "d", "t">>
m_enddt == <<"e", "n", "d", "d", "t">>
m_choices == <<"c", "h", "o", "i", "c", "e", "s">>
m_choices_dict == <<"c", "h", "o", "i", "c", "e", "s", "_", "d", "i", "c", "t">>
m_active == <<"a", "c", "t", "i", "v", "e">>
m_labels == <<"l", "a", "b", "e", "l", "s">>
m_int == <<"i", "n", "t">>
m_float == <<"f", "l", "o", "a", "t">>
m_work == <<"w", "o", "r", "k">>
m_home == <<"h", "o", "m", "e">>
m_other == <<"o", "t", "h", "e", "r">>

\* Python values that cross the model's interfaces: None, a str, a list.
PyNone == [k |-> "none", s |-> <<>>]
PyStr(s) == [k |-> "str", s |-> s]
PyEmptyList == [k |-> "list", s |-> <<>>]

\* Further Python values the mediators return.  Every kind keeps its content
\* under a key of its own, so that two values of different kinds are
\* different records whatever they hold; a list without elements is
\* PyEmptyList whatever its elements would be.
PyInt(i) == [k |-> "int", i |-> i]
PyFloat(f) == [k |-> "float", f |-> f]
PyDatetime(t) == [k |-> "datetime", t |-> t]
PyOption(o) == [k |-> "option", o |-> o]
PyStrs(ss) == IF Len(ss) = 0 THEN PyEmptyList ELSE [k |-> "strs", ss |-> ss]
PyInts(ii) == IF Len(ii) = 0 THEN PyEmptyList ELSE [k |-> "ints", ii |-> ii]
PyOptions(oo) == IF Len(oo) = 0 THEN PyEmptyList ELSE [k |-> "options", oo |-> oo]
PyPairs(pp) == IF Len(pp) = 0 THEN PyEmptyList ELSE [k |-> "pairs", pp |-> pp]
PyEntries(ee) == IF Len(ee) = 0 THEN PyEmptyList ELSE [k |-> "entries", ee |-> ee]
PyItems(vv) == IF Len(vv) = 0 THEN PyEmptyList ELSE [k |-> "items", vv |-> vv]
\* a dict, as the sequence of its (key, value) pairs in insertion order
PyDict(dd) == [k |-> "dict", dd |-> dd]
\* the dict {'start': ...}
PyStartDict(s) == [k |-> "start", start |-> s]

\* SQL values of a TEXT column.
SqlNull == [null |-> TRUE, s |-> <<>>]
SqlText(s) == [null |-> FALSE, s |-> s]

(***************************************************************************)
(* String primitives.                                                      *)
(***************************************************************************)
\* str.replace('_', '-')
ReplaceUnderscore(s) == [i \in 1..Len(s) |-> IF s[i] = "_" THEN "-" ELSE s[i]]

\* position of the first '__' in s, 0 when there is none
FirstDunder(s) ==
    LET hits == {i \in 1..(Len(s) - 1) : s[i] = "_" /\ s[i + 1] = "_"}
    IN  IF hits = {} THEN 0 ELSE CHOOSE i \in hits : \A j \in hits : i <= j

\* str.strip() for the whitespace character ' '
Strip(s) ==
    LET keep == {i \in 1..Len(s) : s[i] /= " "}
    IN  IF keep = {} THEN <<>>
        ELSE LET lo == CHOOSE i \in keep : \A j \in keep : i <= j
                 hi == CHOOSE i \in keep : \A j \in keep : j <= i
             IN  SubSeq(s, lo, hi)

RECURSIVE JoinWith(_, _)
\* sep.join(parts)
JoinWith(sep, parts) ==
    IF Len(parts) = 0 THEN <<>>
    ELSE IF Len(parts) = 1 THEN parts[1]
    ELSE parts[1] \o <<sep>> \o JoinWith(sep, Tail(parts))

RECURSIVE SplitOn(_, _)
\* s.split(sep) for a one-character separator
SplitOn(sep, s) ==
    LET hits == {i \in 1..Len(s) : s[i] = sep}
    IN  IF hits = {} THEN <<s>>
        ELSE LET p == CHOOSE i \in hits : \A j \in hits : i <= j
             IN  <<SubSeq(s, 1, p - 1)>> \o SplitOn(sep, SubSeq(s, p + 1, Len(s)))

(***************************************************************************)
(* Decimal numbers (decimal.Decimal) and timestamps (datetime.strptime),   *)
(* computed on the characters of the string.                               *)
(***************************************************************************)
DigitChars == <<"0", "1", "2", "3", "4", "5", "6", "7", "8", "9">>

IsDigit(c) == \E i \in 1..10 : DigitChars[i] = c

DigitVal(c) == (CHOOSE i \in 1..10 : DigitChars[i] = c) - 1

AllDigits(s) == \A i \in 1..Len(s) : IsDigit(s[i])

RECURSIVE DigitsToNat(_)
\* the number a sequence of digits writes; 0 for the empty sequence
DigitsToNat(s) ==
    IF Len(s) = 0 THEN 0
    ELSE 10 * DigitsToNat(SubSeq(s, 1, Len(s) - 1)) + DigitVal(s[Len(s)])

RECURSIVE NatToDigits(_)
\* str(n) for n >= 0
NatToDigits(n) ==
    IF n < 10 THEN <<DigitChars[n + 1]>>
    ELSE NatToDigits(n \div 10) \o <<DigitChars[(n % 10) + 1]>>

\* the digits of n, zero-padded on the left to four places
Pad4(n) == [i \in 1..(4 - Len(NatToDigits(n))) |-> "0"] \o NatToDigits(n)

\* position of the first '.' of u, Len(u) + 1 when there is none
PointAt(u) ==
    IF \E i \in 1..Len(u) : u[i] = "."
    THEN CHOOSE i \in 1..Len(u) :
            u[i] = "." /\ \A j \in 1..(i - 1) : u[j] /= "."
    ELSE Len(u) + 1

\* the decimal with the digits of u before and after position p
DecimalAt(neg, u, p) ==
    [ok |-> /\ AllDigits(SubSeq(u, 1, p - 1))
            /\ AllDigits(SubSeq(u, p + 1, Len(u)))
            /\ Len(u) > (IF p <= Len(u) THEN 1 ELSE 0),
     neg |-> neg,
     int |-> SubSeq(u, 1, p - 1),
     frac |-> SubSeq(u, p + 1, Len(u))]

\* the decimal a string without surrounding whitespace writes
DecimalOf(b) ==
    IF Len(b) > 0 /\ b[1] \in {"+", "-"}
    THEN DecimalAt(b[1] = "-", Tail(b), PointAt(Tail(b)))
    ELSE DecimalAt(FALSE, b, PointAt(b))

\* Decimal(s) for a str: surrounding whitespace is ignored, then an optional
\* sign, digits, an optional point and digits, with at least one digit.
\* ok = FALSE stands for decimal.InvalidOperation.  (Exponents, 'NaN' and
\* 'Infinity' are outside the strings of this model.)
ParseDecimal(s) == DecimalOf(Strip(s))

\* Decimal(n) for an int
DecimalOfInt(n) ==
    [ok |-> TRUE, neg |-> n < 0,
     int |-> NatToDigits(IF n < 0 THEN 0 - n ELSE n), frac |-> <<>>]

\* whether the digits rest that are cut off round the number away from
\* zero under ROUND_HALF_EVEN, odd telling whether the digit that would be
\* incremented is odd
RoundsUp(rest, odd) ==
    /\ Len(rest) > 0
    /\ \/ DigitVal(rest[1]) > 5
       \/ /\ DigitVal(rest[1]) = 5
          /\ \/ \E i \in 2..Len(rest) : rest[i] /= "0"
             \/ odd

\* the decimal in ten-thousandths, cut off after four fractional digits
Truncated(d) ==
    DigitsToNat(d.int) * 10000
    + DigitsToNat([i \in 1..4 |-> IF i <= Len(d.frac) THEN d.frac[i] ELSE "0"])

\* the decimal in ten-thousandths, rounded half to even (magnitude only)
TenThousandths(d) ==
    IF RoundsUp(SubSeq(d.frac, 5, Len(d.frac)), Truncated(d) % 2 = 1)
    THEN Truncated(d) + 1
    ELSE Truncated(d)

\* n ten-thousandths written with places fractional digits
Written(neg, n, places) ==
    (IF neg THEN <<"-">> ELSE <<>>)
    \o NatToDigits(n \div 10000) \o <<".">>
    \o SubSeq(Pad4(n % 10000), 1, places)

\* a formatting that keeps two fractional digits
Format4f_two(d) == Written(d.neg, TenThousandths(d), 2)

\* f'{d:.4f}'; the sign is kept for a negative zero
Format4f(d) == Written(d.neg, TenThousandths(d), 4)

\* the magnitude of d rounded half to even to an integer
Rounded(d) ==
    DigitsToNat(d.int)
    + (IF RoundsUp(d.frac, DigitsToNat(d.int) % 2 = 1) THEN 1 ELSE 0)

\* int(d.to_integral())
ToIntegral(d) == IF d.neg THEN 0 - Rounded(d) ELSE Rounded(d)

\* position of the last digit of frac that is not 0, 0 when there is none
LastNonZero(frac) ==
    IF \E i \in 1..Len(frac) : frac[i] /= "0"
    THEN CHOOSE i \in 1..Len(frac) :
            frac[i] /= "0" /\ \A j \in (i + 1)..Len(frac) : frac[j] = "0"
    ELSE 0

\* float(d), kept as the exact decimal it was read from: sign, the digits
\* without the point and without trailing fractional zeros, and the number
\* of fractional digits
ToFloat(d) ==
    [neg |-> d.neg,
     digits |-> DigitsToNat(d.int \o SubSeq(d.frac, 1, LastNonZero(d.frac))),
     places |-> LastNonZero(d.frac)]

\* whether s has the form '%Y-%m-%d %H:%M:%S' with zero-padded parts
IsTimestamp(s) ==
    /\ Len(s) = 19
    /\ s[5] = "-" /\ s[8] = "-" /\ s[11] = " " /\ s[14] = ":" /\ s[17] = ":"
    /\ \A i \in (1..19) \ {5, 8, 11, 14, 17} : IsDigit(s[i])
    /\ DigitsToNat(SubSeq(s, 6, 7)) \in 1..12
    /\ DigitsToNat(SubSeq(s, 9, 10)) \in 1..31
    /\ DigitsToNat(SubSeq(s, 12, 13)) \in 0..23
    /\ DigitsToNat(SubSeq(s, 15, 16)) \in 0..59
    /\ DigitsToNat(SubSeq(s, 18, 19)) \in 0..61

\* datetime.datetime.strptime(s, '%Y-%m-%d %H:%M:%S'); ok = FALSE stands
\* for the ValueError of a string of another form
Strptime(s) ==
    IF IsTimestamp(s)
    THEN [ok |-> TRUE,
          year |-> DigitsToNat(SubSeq(s, 1, 4)),
          month |-> DigitsToNat(SubSeq(s, 6, 7)),
          day |-> DigitsToNat(SubSeq(s, 9, 10)),
          hour |-> DigitsToNat(SubSeq(s, 12, 13)),
          minute |-> DigitsToNat(SubSeq(s, 15, 16)),
          second |-> DigitsToNat(SubSeq(s, 18, 19))]
    ELSE [ok |-> FALSE, year |-> 0, month |-> 0, day |-> 0,
          hour |-> 0, minute |-> 0, second |-> 0]

\* the digits of n, zero-padded on the left to two places
Pad2(n) == IF n < 10 THEN <<"0">> \o NatToDigits(n) ELSE NatToDigits(n)

\* '{}'.format(dt) of a datetime without microseconds
FormatDatetime(t) ==
    Pad4(t.year) \o <<"-">> \o Pad2(t.month) \o <<"-">> \o Pad2(t.day)
    \o <<" ">> \o Pad2(t.hour) \o <<":">> \o Pad2(t.minute)
    \o <<":">> \o Pad2(t.second)

\* '%s' % value
PercentS(v) ==
    IF v.k = "none" THEN sNone
    ELSE IF v.k = "str" THEN v.s
    ELSE <<"[", "]">>

(***************************************************************************)
(* Documents.  A field is a record with its external id, its type and its  *)
(* values; has_values tells whether the 'values' key is present at all     *)
(* (a schema field definition carries none).                               *)
(***************************************************************************)
MkField(ext, type, vals) ==
    [external_id |-> ext, type |-> type, has_values |-> TRUE, values |-> vals]

SchemaField(ext, type) ==
    [external_id |-> ext, type |-> type, has_values |-> FALSE, values |-> <<>>]

TextValue(s) == [value |-> s]

\* The app schema as the remote service returns it (resp.json() of the app
\* resource); present = FALSE stands for app_config = None.
AppConfig ==
    [present |-> TRUE,
     fields |-> << SchemaField(sN, "text"), SchemaField(sAB, "text"),
                   SchemaField(sC, "calculation") >>]

NoConfig == [present |-> FALSE, fields |-> <<>>]

\* The MEDIATORS registry: the field types that have a mediator class.
MEDIATORS == {"app", "calculation", "category", "contact", "date", "email",
              "embed", "number", "text", "image"}

(***************************************************************************)
(* Value records of the field types.  The key that Podio calls 'value'     *)
(* holds a string for text, number and calculation fields; where it holds  *)
(* an object the model names the key after the object (embed, contact,     *)
(* item, file, option).                                                    *)
(***************************************************************************)
EmbedValue(url) == [embed |-> [url |-> url]]
ContactValue(profile_id) == [contact |-> [profile_id |-> profile_id]]
AppValue(item_id) == [item |-> [item_id |-> item_id]]
DateValue(start, end) == [start |-> start, end |-> end]
ImageValue(file_id) == [file |-> [file_id |-> file_id]]
OptionValue(opt) == [option |-> opt]
EmailValue(type, value) == [type |-> type, value |-> value]

\* an option of a category field
Option(id, text, status) == [id |-> id, text |-> text, status |-> status]

\* a category field: field['config']['settings']['options'] is its options
CategoryField(ext, has_values, vals, options) ==
    [external_id |-> ext, type |-> "category", has_values |-> has_values,
     values |-> vals, options |-> options]

\* a calculation field whose config says return_type = 'date'
DateCalculationField(ext, has_values, vals) ==
    [external_id |-> ext, type |-> "calculation", has_values |-> has_values,
     values |-> vals, return_type |-> "date"]

\* field.get('values', [])
ValuesOf(field) == IF field.has_values THEN field.values ELSE <<>>

\* what a mediator call gives: a returned value or the exception it raises
Returns(v) == [res |-> "ok", val |-> v]
Raises(e) == [res |-> e, val |-> PyNone]

(***************************************************************************)
(* Value mediators (records.py).  fetch takes the field and the modifier   *)
(* of the descriptor (has_param = FALSE stands for field_param = None).    *)
(***************************************************************************)
\* EmbedMediator.fetch
EmbedMediator_fetch(field, has_param, field_param) ==
    IF ~has_param
    THEN IF Len(ValuesOf(field)) > 0
         THEN Returns(PyStr(ValuesOf(field)[1].embed.url))
         ELSE Returns(PyNone)
    ELSE IF field_param = m_all
    THEN Returns(PyStrs([i \in 1..Len(ValuesOf(field)) |->
                            ValuesOf(field)[i].embed.url]))
    ELSE Returns(PyNone)

\* ContactMediator.fetch is defined without self: the call
\* mediator.fetch(field, field_param) passes three arguments to a function
\* of two.
ContactMediator_fetch(field, has_param, field_param) == Raises("TypeError")

\* the item ids of the values of an app field
ItemIdsOf(field) ==
    [i \in 1..Len(ValuesOf(field)) |-> ValuesOf(field)[i].item.item_id]

\* AppMediator.fetch
AppMediator_fetch(field, has_param, field_param) ==
    IF has_param /\ field_param = m_values
    THEN Returns(PyItems([i \in 1..Len(ValuesOf(field)) |->
                             ValuesOf(field)[i].item]))
    ELSE IF ~has_param \/ Len(field_param) = 0
    THEN Returns(PyInts(ItemIdsOf(field)))
    ELSE IF field_param = m_first
    THEN IF Len(ItemIdsOf(field)) = 0 THEN Raises("IndexError")
         ELSE Returns(PyInt(ItemIdsOf(field)[1]))
    ELSE IF field_param = m_last
    THEN Returns(PyInts(SubSeq(ItemIdsOf(field), 1, Len(ItemIdsOf(field)) - 1)))
    ELSE Returns(PyNone)

\* AppMediator.as_podio_dict
AppMediator_as_podio_dict(field) == AppMediator_fetch(field, FALSE, <<>>)

\* the value of datetime.strptime as the mediator returns it
ParsedDatetime(s) ==
    IF Strptime(s).ok THEN Returns(PyDatetime(Strptime(s)))
    ELSE Raises("ValueError")

\* DateMediator.fetch
DateMediator_fetch(field, has_param, field_param) ==
    IF Len(ValuesOf(field)) = 0 THEN Returns(PyNone)
    ELSE IF ~has_param \/ field_param = m_start
    THEN Returns(PyStr(field.values[1].start))
    ELSE IF field_param \in {m_start_datetime, m_startdatetime,
                             m_start_dt, m_startdt}
    THEN ParsedDatetime(field.values[1].start)
    ELSE IF field_param = m_end THEN Returns(PyStr(field.values[1].end))
    ELSE IF field_param \in {m_end_datetime, m_enddatetime,
                             m_end_dt, m_enddt}
    THEN ParsedDatetime(field.values[1].end)
    ELSE IF field_param = m_datetime THEN ParsedDatetime(field.values[1].start)
    ELSE Returns(PyNone)

\* DateMediator.as_podio_dict
DateMediator_as_podio_dict(field) ==
    IF Len(ValuesOf(field)) > 0
    THEN Returns(PyStartDict(field.values[1].start))
    ELSE Returns(PyNone)

\* ImageMediator.fetch
ImageMediator_fetch(field, has_param, field_param) ==
    Returns(PyInts([i \in 1..Len(ValuesOf(field)) |->
                      ValuesOf(field)[i].file.file_id]))

\* ImageMediator.as_podio_dict
ImageMediator_as_podio_dict(field) == Returns(PyNone)

\* a number update that writes two fractional digits
NumberMediator_update_two(field, value) ==
    IF value.k \notin {"str", "int"}
    THEN [res |-> "TypeError", values |-> <<>>]
    ELSE IF value.k = "str" /\ ~ParseDecimal(value.s).ok
    THEN [res |-> "InvalidOperation", values |-> <<>>]
    ELSE [res |-> "ok",
          values |-> << [value |-> Format4f_two(
                            IF value.k = "str" THEN ParseDecimal(value.s)
                            ELSE DecimalOfInt(value.i))] >>]

\* NumberMediator.update: Decimal(value) takes a str or an int
NumberMediator_update(field, value) ==
    IF value.k \notin {"str", "int"}
    THEN [res |-> "TypeError", values |-> <<>>]
    ELSE IF value.k = "str" /\ ~ParseDecimal(value.s).ok
    THEN [res |-> "InvalidOperation", values |-> <<>>]
    ELSE [res |-> "ok",
          values |-> << [value |-> Format4f(
                            IF value.k = "str" THEN ParseDecimal(value.s)
                            ELSE DecimalOfInt(value.i))] >>]

\* what NumberMediator.fetch makes of the decimal of the first value
NumberFetched(dvalue, has_param, field_param) ==
    IF ~dvalue.ok THEN Raises("InvalidOperation")
    ELSE IF ~has_param THEN Returns(PyStr(Format4f(dvalue)))
    ELSE IF field_param = m_int THEN Returns(PyInt(ToIntegral(dvalue)))
    ELSE Returns(PyFloat(ToFloat(dvalue)))

\* NumberMediator.fetch
NumberMediator_fetch(field, has_param, field_param) ==
    IF Len(ValuesOf(field)) = 0 THEN Returns(PyNone)
    ELSE IF has_param /\ field_param \notin {m_int, m_float}
    THEN Returns(PyNone)
    ELSE NumberFetched(ParseDecimal(ValuesOf(field)[1].value),
                       has_param, field_param)

\* NumberMediator.as_podio_dict
NumberMediator_as_podio_dict(field) == NumberMediator_fetch(field, FALSE, <<>>)

\* TextMediator.update: value.strip() exists for a str only
TextMediator_update(field, value) ==
    IF value.k = "none" THEN <<>> ELSE << TextValue(Strip(value.s)) >>

\* TextMediator.fetch
TextMediator_fetch(field, has_param) ==
    IF ~has_param /\ field.has_values /\ Len(field.values) > 0
    THEN PyStr(field.values[1].value)
    ELSE PyNone

\* TextMediator.as_podio_dict
TextMediator_as_podio_dict(field) ==
    IF field.has_values /\ Len(field.values) > 0
    THEN PyStr(field.values[1].value)
    ELSE PyEmptyList

\* the options a category update selects for a str or an int
SelectedOptions(field, value) ==
    SelectSeq(field.options,
              LAMBDA opt : \/ value.k = "str" /\ opt.text = value.s
                           \/ value.k = "int" /\ opt.id = value.i)

\* a category update that stores the id of the option only
CategoryMediator_update_id(field, value) ==
    IF value.k \notin {"str", "int"}
    THEN [res |-> "UnboundLocalError", values |-> <<>>]
    ELSE [res |-> "ok",
          values |-> [i \in 1..Len(SelectedOptions(field, value)) |->
                        OptionValue([SelectedOptions(field, value)[i] EXCEPT
                                       !.text = <<>>])]]

\* CategoryMediator.update: selected_values is bound for a str or an int
\* only
CategoryMediator_update(field, value) ==
    IF value.k \notin {"str", "int"}
    THEN [res |-> "UnboundLocalError", values |-> <<>>]
    ELSE [res |-> "ok",
          values |-> [i \in 1..Len(SelectedOptions(field, value)) |->
                        OptionValue(SelectedOptions(field, value)[i])]]

\* the options that are shown to the user
ActiveOptions(field) ==
    SelectSeq(field.options, LAMBDA opt : opt.status = "active")

\* the options whose text no earlier option of the list carries
FirstsByText(opts) ==
    SelectSeq(opts, LAMBDA o : \E i \in 1..Len(opts) :
                                  /\ opts[i] = o
                                  /\ \A j \in 1..(i - 1) : opts[j].text /= o.text)

\* the last option of the list with this text
LastWithText(opts, text) ==
    opts[CHOOSE i \in 1..Len(opts) :
            /\ opts[i].text = text
            /\ \A j \in (i + 1)..Len(opts) : opts[j].text /= text]

\* the dict {opt['text']: opt['id'] for opt in opts}: a key keeps the place
\* of its first occurrence and the value of its last
ChoicesDict(opts) ==
    [n \in 1..Len(FirstsByText(opts)) |->
        [text |-> FirstsByText(opts)[n].text,
         id |-> LastWithText(opts, FirstsByText(opts)[n].text).id]]

\* choices that list every declared option
CategoryChoices_all(field) ==
    [i \in 1..Len(field.options) |->
        [id |-> field.options[i].id, text |-> field.options[i].text]]

\* the list of (id, text) of the active options
CategoryChoices(field) ==
    [i \in 1..Len(ActiveOptions(field)) |->
        [id |-> ActiveOptions(field)[i].id,
         text |-> ActiveOptions(field)[i].text]]

\* CategoryMediator.fetch; field.get('values', [None])[0] raises IndexError
\* for an empty list and is None for a missing key
CategoryMediator_fetch(field, has_param, field_param) ==
    IF has_param /\ field_param = m_choices
    THEN Returns(PyPairs(CategoryChoices(field)))
    ELSE IF has_param /\ field_param = m_choices_dict
    THEN Returns(PyDict(ChoicesDict(ActiveOptions(field))))
    ELSE IF has_param /\ field_param = m_active
    THEN IF ~field.has_values THEN Returns(PyNone)
         ELSE IF Len(field.values) = 0 THEN Raises("IndexError")
         ELSE Returns(PyOption(field.values[1].option))
    ELSE IF has_param /\ field_param = m_all
    THEN Returns(PyOptions([i \in 1..Len(ValuesOf(field)) |->
                               ValuesOf(field)[i].option]))
    ELSE IF has_param /\ field_param = m_labels
    THEN Returns(PyStrs([i \in 1..Len(ValuesOf(field)) |->
                            ValuesOf(field)[i].option.text]))
    ELSE IF ~has_param
    THEN IF ~field.has_values THEN Returns(PyNone)
         ELSE IF Len(field.values) = 0 THEN Raises("IndexError")
         ELSE Returns(PyStr(field.values[1].option.text))
    ELSE Returns(PyNone)

\* CategoryMediator.as_podio_dict
CategoryMediator_as_podio_dict(field) ==
    Returns(PyInts([i \in 1..Len(ValuesOf(field)) |->
                      ValuesOf(field)[i].option.id]))

\* the email values of a subtype
OfType(vals, type) == SelectSeq(vals, LAMBDA val : val.type = type)

\* EmailMediator.fetch
EmailMediator_fetch(field, has_param, field_param) ==
    IF has_param /\ field_param = m_all
    THEN Returns(PyEntries(ValuesOf(field)))
    ELSE IF has_param /\ field_param \in {m_work, m_home, m_other}
    THEN IF Len(OfType(ValuesOf(field), field_param)) = 0
         THEN Returns(PyNone)
         ELSE Returns(PyStr(OfType(ValuesOf(field), field_param)[1].value))
    ELSE IF ~has_param
    THEN IF ~field.has_values THEN Returns(PyNone)
         ELSE IF Len(field.values) = 0 THEN Raises("IndexError")
         ELSE Returns(PyStr(field.values[1].value))
    ELSE Returns(PyNone)

\* CalculationMediator.fetch for a calculation whose return type is not a date
CalculationMediator_fetch(field) ==
    IF field.has_values /\ Len(field.values) > 0
    THEN PyStr(field.values[1].value)
    ELSE PyNone

\* CalculationMediator.fetch for a calculation whose return type is a date
DateCalculation_fetch(field, has_param, field_param) ==
    IF Len(ValuesOf(field)) = 0 THEN Returns(PyNone)
    ELSE IF ~Strptime(field.values[1].start).ok THEN Raises("ValueError")
    ELSE IF has_param /\ field_param = m_datetime
    THEN Returns(PyDatetime(Strptime(field.values[1].start)))
    ELSE Returns(PyStr(FormatDatetime(Strptime(field.values[1].start))))

\* mediator.update for an instance of the class registered under the name
\* mediator: FieldMediator.update raises NotImplementedError unless
\* the class overrides it.  (The records of this model are not assigned
\* app, date or image fields.)
Mediator_update(mediator, field, value) ==
    CASE mediator = "text" ->
            IF value.k \in {"none", "str"}
            THEN [res |-> "ok", values |-> TextMediator_update(field, value)]
            ELSE [res |-> "AttributeError", values |-> <<>>]
      [] mediator = "number" -> NumberMediator_update(field, value)
      [] mediator = "category" -> CategoryMediator_update(field, value)
      [] mediator \in {"calculation", "contact", "email", "embed"} ->
            [res |-> "NotImplementedError", values |-> <<>>]

\* mediator.fetch
Mediator_fetch(mediator, field, has_param, field_param) ==
    CASE mediator = "app" -> AppMediator_fetch(field, has_param, field_param)
      [] mediator = "calculation" ->
            IF "return_type" \in DOMAIN field
            THEN DateCalculation_fetch(field, has_param, field_param)
            ELSE Returns(CalculationMediator_fetch(field))
      [] mediator = "category" ->
            CategoryMediator_fetch(field, has_param, field_param)
      [] mediator = "contact" ->
            ContactMediator_fetch(field, has_param, field_param)
      [] mediator = "date" -> DateMediator_fetch(field, has_param, field_param)
      [] mediator = "email" -> EmailMediator_fetch(field, has_param, field_param)
      [] mediator = "embed" -> EmbedMediator_fetch(field, has_param, field_param)
      [] mediator = "number" ->
            NumberMediator_fetch(field, has_param, field_param)
      [] mediator = "text" -> Returns(TextMediator_fetch(field, has_param))
      [] mediator = "image" -> ImageMediator_fetch(field, has_param, field_param)

\* mediator.as_podio_dict: FieldMediator.as_podio_dict raises
\* NotImplementedError unless the class overrides it.
Mediator_as_podio_dict(mediator, field) ==
    CASE mediator = "text" -> Returns(TextMediator_as_podio_dict(field))
      [] mediator = "app" -> AppMediator_as_podio_dict(field)
      [] mediator = "category" -> CategoryMediator_as_podio_dict(field)
      [] mediator = "date" -> DateMediator_as_podio_dict(field)
      [] mediator = "image" -> ImageMediator_as_podio_dict(field)
      [] mediator = "number" -> NumberMediator_as_podio_dict(field)
      [] mediator \in {"calculation", "contact", "email", "embed"} ->
            Raises("NotImplementedError")

(***************************************************************************)
(* Field resolution (records.py).                                          *)
(***************************************************************************)
split_descriptor_parts(field_descriptor) ==
    LET p == FirstDunder(field_descriptor)
    IN  IF p = 0
        THEN [external_id |-> field_descriptor, has_param |-> FALSE,
              field_param |-> <<>>]
        ELSE [external_id |-> SubSeq(field_descriptor, 1, p - 1),
              has_param |-> TRUE,
              field_param |-> SubSeq(field_descriptor, p + 2, Len(field_descriptor))]

\* index of the first field of the list with this external id, 0 if none
FirstIndex(fields, ext) ==
    LET hits == {i \in 1..Len(fields) : fields[i].external_id = ext}
    IN  IF hits = {} THEN 0 ELSE CHOOSE i \in hits : \A j \in hits : i <= j

NoField == SchemaField(<<>>, "")

\* a resolution that reports an unknown field as "no field" also when the
\* schema is known
get_field_from_podio_json_list_lenient(item_json, external_id, app_config) ==
    LET ext == ReplaceUnderscore(external_id)
        i == FirstIndex(item_json.fields, ext)
        j == FirstIndex(app_config.fields, ext)
    IN  IF i > 0 THEN [tag |-> "field", field |-> item_json.fields[i]]
        ELSE IF app_config.present /\ j > 0
        THEN [tag |-> "field", field |-> app_config.fields[j]]
        ELSE [tag |-> "none", field |-> NoField]

get_field_from_podio_json_list(item_json, external_id, app_config) ==
    LET ext == ReplaceUnderscore(external_id)
        i == FirstIndex(item_json.fields, ext)
        j == FirstIndex(app_config.fields, ext)
    IN  IF i > 0 THEN [tag |-> "field", field |-> item_json.fields[i]]
        ELSE IF app_config.present
        THEN IF j > 0 THEN [tag |-> "field", field |-> app_config.fields[j]]
             ELSE [tag |-> "KeyError", field |-> NoField]
        ELSE [tag |-> "none", field |-> NoField]

\* a registry that hands out the text mediator for a type it does not know
find_mediator_class_any(field) ==
    IF field.type \in MEDIATORS THEN field.type ELSE "text"

\* the class registered for the type of the field, named by the type, or
\* the NotImplementedError of an unregistered field type
find_mediator_class(field) ==
    IF field.type \in MEDIATORS THEN field.type ELSE "NotImplementedError"

fetch_field(field_descriptor, item_json, app_config) ==
    LET parts == split_descriptor_parts(field_descriptor)
        f == get_field_from_podio_json_list(item_json, parts.external_id, app_config)
    IN  IF f.tag = "KeyError" THEN [res |-> "KeyError", val |-> PyNone]
        ELSE IF f.tag = "none" THEN [res |-> "ok", val |-> PyNone]
        ELSE IF find_mediator_class(f.field) = "NotImplementedError"
        THEN [res |-> "NotImplementedError", val |-> PyNone]
        ELSE Mediator_fetch(find_mediator_class(f.field), f.field,
                            parts.has_param, parts.field_param)

\* the field list after the appending loop over app_config['fields']
AppendFromSchema(fields, app_config, field_descriptor, actual) ==
    LET hits == SelectSeq(app_config.fields,
                          LAMBDA sf : sf.external_id = field_descriptor)
    IN  fields \o [i \in 1..Len(hits) |->
                      MkField(field_descriptor, hits[i].type, actual)]

update_field(field_descriptor, new_value, item_json, app_config) ==
    LET parts == split_descriptor_parts(field_descriptor)
        f == get_field_from_podio_json_list(item_json, parts.external_id, app_config)
        m == Mediator_update(find_mediator_class(f.field), f.field, new_value)
        i == FirstIndex(item_json.fields, field_descriptor)
    IN  IF f.tag = "KeyError" THEN [res |-> "KeyError", item_json |-> item_json]
        ELSE IF f.tag = "none" THEN [res |-> "TypeError", item_json |-> item_json]
        ELSE IF find_mediator_class(f.field) = "NotImplementedError"
        THEN [res |-> "NotImplementedError", item_json |-> item_json]
        ELSE IF m.res /= "ok" THEN [res |-> m.res, item_json |-> item_json]
        ELSE IF i > 0
        THEN [res |-> "ok",
              item_json |-> [item_json EXCEPT !.fields[i].has_values = TRUE,
                                              !.fields[i].values = m.values]]
        ELSE IF ~app_config.present
        THEN [res |-> "TypeError", item_json |-> item_json]
        ELSE [res |-> "ok",
              item_json |-> [item_json EXCEPT !.fields =
                  AppendFromSchema(@, app_config, field_descriptor, m.values)]]

fetch_podio_dict(field_descriptor, item_json, app_config) ==
    LET parts == split_descriptor_parts(field_descriptor)
        f == get_field_from_podio_json_list(item_json, parts.external_id, app_config)
    IN  IF f.tag = "KeyError" THEN [res |-> "KeyError", val |-> PyNone]
        ELSE IF f.tag = "none" THEN [res |-> "ok", val |-> PyNone]
        ELSE IF find_mediator_class(f.field) = "NotImplementedError"
        THEN [res |-> "NotImplementedError", val |-> PyNone]
        ELSE Mediator_as_podio_dict(find_mediator_class(f.field), f.field)

\* The fields argument of as_podio_dict: all = TRUE stands for fields=None.
AllFields == [all |-> TRUE, set |-> {}]
OnlyFields(S) == [all |-> FALSE, set |-> S]

\* a loop that ignores the fields argument
IsSelected_unfiltered(field, fields) ==
    field.type /= "calculation"

\* does the loop of as_podio_dict reach fetch_podio_dict for this field
IsSelected(field, fields) ==
    /\ field.type /= "calculation"
    /\ fields.all \/ field.external_id \in fields.set

\* BaseRecord.as_podio_dict: the mapping built by the loop over app_fields, or
\* the first error raised by fetch_podio_dict
as_podio_dict(item_json, app_config, fields) ==
    LET app_fields == IF ~app_config.present THEN item_json.fields
                      ELSE app_config.fields
        sel == {i \in 1..Len(app_fields) : IsSelected(app_fields[i], fields)}
        r == [i \in sel |->
                 fetch_podio_dict(app_fields[i].external_id, item_json, app_config)]
        bad == {i \in sel : r[i].res /= "ok"}
        keys == {app_fields[i].external_id : i \in sel}
        last(key) == CHOOSE i \in sel :
                        /\ app_fields[i].external_id = key
                        /\ \A j \in sel : app_fields[j].external_id = key => j <= i
    IN  IF bad /= {}
        THEN [res |-> r[CHOOSE i \in bad : \A j \in bad : i <= j].res,
              podio_dict |-> << >>]
        ELSE [res |-> "ok", podio_dict |-> [key \in keys |-> r[last(key)].val]]

(***************************************************************************)
(* Item documents.  app = 0 stands for a document without the 'app' key.   *)
(***************************************************************************)
MkDoc(id, app, n) ==
    [item_id |-> id, app |-> app,
     fields |-> << MkField(sN, "text", << TextValue(n) >>),
                   MkField(sC, "calculation", << TextValue(sX) >>) >>]

\* a document that also carries a field of a type without a mediator
MoneyDoc(id, app, n) ==
    [MkDoc(id, app, n) EXCEPT
        !.fields = @ \o << MkField(sM, "money", << TextValue(sX) >>) >>]

\* a document whose field list holds a field with a hyphen in its
\* external id
HyphenDoc(id, app, n) ==
    [MkDoc(id, app, n) EXCEPT
        !.fields = @ \o << MkField(sAB, "text", << TextValue(sY) >>) >>]

NoDoc == [item_id |-> 0, app |-> 0, fields |-> <<>>]

\* item documents the remote service serves for the app
RemoteDocs == {MkDoc(id, AppId, n) : id \in ItemIds, n \in {sX, sY}}

\* item collections the filter resource can return: some of the app's items,
\* each once, in the order of their ids
Collections ==
    {c \in UNION {[1..n -> RemoteDocs] : n \in 0..MaxItems} :
        \A i, j \in 1..Len(c) : i < j => c[i].item_id < c[j].item_id}

\* json.dumps / json.loads of a document
json_dumps(doc) == [json |-> doc]
json_loads(text) == text.json

(***************************************************************************)
(* The SQLite tables (cache.py).  podio_app_<id> has the columns item_id,  *)
(* item_data, optionally __natural_key, and the extra columns it was       *)
(* created with; a row maps every column of the table to a value.          *)
(***************************************************************************)
NoTable == [exists |-> FALSE, has_nk |-> FALSE, extra_cols |-> {}, rows |-> {},
            idx |-> FALSE]

\* CREATE TABLE IF NOT EXISTS podio_app_<id> (...)
CreateTableIfNotExists(table, has_nk, extra_fields) ==
    IF table.exists THEN table
    ELSE [exists |-> TRUE, has_nk |-> has_nk,
          extra_cols |-> {extra_fields[i] : i \in 1..Len(extra_fields)},
          rows |-> {}, idx |-> FALSE]

\* Item(item_data)[key]: an Item built from the document alone has no app
\* schema, as Record.__init__ with app_config=None
ItemGet(item_data, key) == fetch_field(key, item_data, NoConfig)

\* isinstance(value, dict): the values the mediators return as a dict
IsDict(v) == v.k \in {"dict", "option", "start"}

\* value['item_id']: the entry of a dict that has this key; KeyError for a
\* dict without it, TypeError for a value that is not a dict
ItemIdOf(v) ==
    IF v.k = "dict" /\ \E n \in 1..Len(v.dd) : v.dd[n].text = sItem_id
    THEN Returns(PyInt(v.dd[CHOOSE n \in 1..Len(v.dd) :
                                v.dd[n].text = sItem_id].id))
    ELSE IF IsDict(v) THEN Raises("KeyError")
    ELSE Raises("TypeError")

\* repr(related) of related = [value['item_id']]
ReprRelated(r) ==
    IF r.res /= "ok" THEN r
    ELSE Returns(PyStr(<<"[">> \o NatToDigits(r.val.i) \o <<"]">>))

\* the string the loops append for a value read from the item: got is the
\* outcome of reading the field, related the outcome of reading the field
\* whose item_id is taken when the value is a dict
AppendedVal(got, related) ==
    IF got.res /= "ok" THEN got
    ELSE IF ~IsDict(got.val) THEN Returns(PyStr(PercentS(got.val)))
    ELSE IF related.res /= "ok" THEN related
    ELSE ReprRelated(ItemIdOf(related.val))

\* what the loop over natural_key_list appends to nat_key_val for key
NatKeyVal(item_data, key) ==
    AppendedVal(ItemGet(item_data, key), ItemGet(item_data, key))

\* what the loop over extra_fields appends to values for field_name.  For a
\* dict the code reads item[key], where key is the variable the loop over
\* natural_key_list left behind: its last key, or unbound when that loop
\* did not run
ExtraVal(item_data, nkl, field_name) ==
    AppendedVal(ItemGet(item_data, field_name),
                IF Len(nkl) = 0 THEN Raises("UnboundLocalError")
                ELSE ItemGet(item_data, nkl[Len(nkl)]))

\* a plain INSERT that deletes nothing
ReplacedRows_none(table, item_id, nk) == {}

\* the rows INSERT OR REPLACE deletes: those that collide with the new row
\* on the primary key or on the unique index
ReplacedRows(table, item_id, nk) ==
    {r \in table.rows :
        \/ r.item_id = item_id
        \/ table.idx /\ ~nk.null /\ ~r.natural_key.null /\ r.natural_key.s = nk.s}

insert_item_data_into_db(table, app_id, item_data, extra_fields, natural_key_list) ==
    LET data == IF item_data.app = 0 THEN [item_data EXCEPT !.app = app_id]
                ELSE item_data
        nkl == IF natural_key_list.none THEN <<>> ELSE natural_key_list.l
        nk_parts == [i \in 1..Len(nkl) |-> NatKeyVal(data, nkl[i])]
        ex_parts == [i \in 1..Len(extra_fields) |->
                        ExtraVal(data, nkl, extra_fields[i])]
        bad_nk == {i \in 1..Len(nkl) : nk_parts[i].res /= "ok"}
        bad_ex == {i \in 1..Len(extra_fields) : ex_parts[i].res /= "ok"}
        nk_val == IF Len(nkl) > 0
                  THEN SqlText(JoinWith("-", [i \in 1..Len(nkl) |->
                                                nk_parts[i].val.s]))
                  ELSE SqlNull
        named == {extra_fields[i] : i \in 1..Len(extra_fields)}
        col_val(c) == LET i == CHOOSE j \in 1..Len(extra_fields) :
                                  /\ extra_fields[j] = c
                                  /\ \A m \in 1..Len(extra_fields) :
                                        extra_fields[m] = c => m <= j
                      IN  SqlText(ex_parts[i].val.s)
        row == [item_id |-> data.item_id, item_data |-> json_dumps(data),
                natural_key |-> nk_val,
                extra |-> [c \in table.extra_cols |->
                              IF c \in named THEN col_val(c) ELSE SqlNull]]
    IN  IF bad_nk /= {}
        THEN [res |-> nk_parts[CHOOSE i \in bad_nk : \A j \in bad_nk : i <= j].res,
              table |-> table, item_data |-> data]
        ELSE IF bad_ex /= {}
        THEN [res |-> ex_parts[CHOOSE i \in bad_ex : \A j \in bad_ex : i <= j].res,
              table |-> table, item_data |-> data]
        ELSE IF \/ ~table.exists
                \/ Len(nkl) > 0 /\ ~table.has_nk
                \/ ~(named \subseteq table.extra_cols)
        THEN [res |-> "OperationalError", table |-> table, item_data |-> data]
        ELSE [res |-> "ok",
              table |-> [table EXCEPT !.rows =
                  (@ \ ReplacedRows(table, data.item_id, nk_val)) \cup {row}],
              item_data |-> data]

RECURSIVE InsertAll(_, _, _, _, _)
\* the loop of cache_app over the fetched items; done counts the inserts
\* that succeeded before the first one that raised
InsertAll(table, app_id, items, extra_fields, natural_key_list) ==
    IF Len(items) = 0 THEN [res |-> "ok", table |-> table, done |-> 0]
    ELSE LET r == insert_item_data_into_db(table, app_id, Head(items),
                                           extra_fields, natural_key_list)
         IN  IF r.res /= "ok" THEN [res |-> r.res, table |-> table, done |-> 0]
             ELSE LET rest == InsertAll(r.table, app_id, Tail(items),
                                        extra_fields, natural_key_list)
                  IN  [rest EXCEPT !.done = @ + 1]

\* CREATE UNIQUE INDEX IF NOT EXISTS idx_<id>_natural_key ON t (__natural_key)
CreateUniqueIndex(table) ==
    IF table.idx THEN [res |-> "ok", table |-> table]
    ELSE IF ~table.has_nk THEN [res |-> "OperationalError", table |-> table]
    ELSE IF \E r1, r2 \in table.rows :
                /\ r1 /= r2
                /\ ~r1.natural_key.null /\ ~r2.natural_key.null
                /\ r1.natural_key.s = r2.natural_key.s
    THEN [res |-> "IntegrityError", table |-> table]
    ELSE [res |-> "ok", table |-> [table EXCEPT !.idx = TRUE]]

(***************************************************************************)
(* State.                                                                  *)
(*   rec            the record object in the caller's hands: a Record      *)
(*                  (kind "plain") or a CachedItem (kind "cached"), with   *)
(*                  its document and its _tainted set                      *)
(*   app_configs    CachedItemStorage.app_configs: app ids with a          *)
(*                  memoized schema                                        *)
(*   cache_configs  CachedItemStorage.cache_configs entry of the app       *)
(*   cached_apps    the control table                                      *)
(*   podio_app      the data table podio_app_<AppId>                       *)
(*   lastOp         the last call: its name, how it ended, the remote      *)
(*                  requests it sent and its arguments; a call of          *)
(*                  TapeSession.request that is still in its retry loop    *)
(*                  has res "running" and its local variables in arg       *)
(*   assigned       descriptors assigned successfully since the tainted    *)
(*                  set of rec was last empty by construction or reset     *)
(*   inserted       per item id the document of the last successful        *)
(*                  insert_item_data_into_db                               *)
(*   searchable     a SearchableList: its data (the items, position i of   *)
(*                  the list at place i + 1) and its search_index, per     *)
(*                  external id the positions listed under each text       *)
(***************************************************************************)
VARIABLES rec, app_configs, cache_configs, cached_apps, podio_app, lastOp,
          assigned, inserted, searchable

vars == <<rec, app_configs, cache_configs, cached_apps, podio_app, lastOp,
          assigned, inserted, searchable>>

\* SearchableList(): an empty list with an empty index
SearchableList == [data |-> <<>>, search_index |-> <<>>]

TableName == "podio_app_1"

NoRec == [kind |-> "none", item_data |-> NoDoc, tainted |-> {}, with_config |-> FALSE]

NoCacheConfig == [has |-> FALSE, extra_fields |-> <<>>,
                  natural_key |-> [none |-> TRUE, l |-> <<>>]]

\* Item.__init__ / Record.__init__: a fresh record has nothing tainted
Record(item_data, with_config) ==
    [kind |-> "plain", item_data |-> item_data, tainted |-> {},
     with_config |-> with_config]

CachedItem(item_data) ==
    [kind |-> "cached", item_data |-> item_data, tainted |-> {},
     with_config |-> TRUE]

Op(op, res, reqs, arg) == [op |-> op, res |-> res, reqs |-> reqs, arg |-> arg]

NoArg == [none |-> TRUE]

\* HTTP statuses the remote service answers with
Statuses == {200, 404}

\* a response whose status is never looked at
RaisesForStatus_never(st) == FALSE

\* resp.raise_for_status() raises for 4xx and 5xx
RaisesForStatus(st) == st >= 400 /\ st < 600

Init ==
    /\ rec = NoRec
    /\ app_configs = {}
    /\ cache_configs = NoCacheConfig
    /\ cached_apps = [exists |-> FALSE, rows |-> {}]
    /\ podio_app = NoTable
    /\ lastOp = Op("init", "ok", <<>>, NoArg)
    /\ assigned = {}
    /\ inserted = [i \in ItemIds |-> NoDoc]
    /\ searchable = SearchableList

(***************************************************************************)
(* Records (records.py, cache.py CachedItem).                              *)
(***************************************************************************)
\* CachedItem.get_app_config goes to CachedItemStorage.get_app_config, which
\* sends a GET unless the schema is memoized; a Record uses the schema it
\* was constructed with.
\* a store that asks the remote service on every call
NeedsGet_always == rec.kind = "cached"

NeedsGet == rec.kind = "cached" /\ AppId \notin app_configs

GetReqs == IF NeedsGet THEN <<"GET_APP">> ELSE <<>>

get_app_config == IF rec.kind = "plain" /\ ~rec.with_config THEN NoConfig
                  ELSE AppConfig

\* an assignment that forgets what was tainted before
Tainted_add_last(tainted, key) == {key}

\* self._tainted.add(key)
Tainted_add(tainted, key) == tainted \cup {key}

\* Record(item_data, app_config)
NewRecord(item_data, with_config) ==
    /\ rec' = Record(item_data, with_config)
    /\ assigned' = {}
    /\ lastOp' = Op("new", "ok", <<>>, NoArg)
    /\ UNCHANGED <<app_configs, cache_configs, cached_apps, podio_app, inserted>>
    /\ UNCHANGED searchable

\* BaseRecord.__getitem__
getitem(key, stGet) ==
    /\ rec.kind /= "none"
    /\ NeedsGet \/ stGet = 200
    /\ IF NeedsGet /\ RaisesForStatus(stGet)
       THEN /\ lastOp' = Op("getitem", "HTTPError", GetReqs,
                            [key |-> key, val |-> PyNone])
            /\ UNCHANGED app_configs
       ELSE \E r \in {fetch_field(key, rec.item_data, get_app_config)} :
                /\ app_configs' = IF NeedsGet THEN app_configs \cup {AppId}
                                  ELSE app_configs
                /\ lastOp' = Op("getitem", r.res, GetReqs,
                                [key |-> key, val |-> r.val])
    /\ UNCHANGED <<rec, assigned, cache_configs, cached_apps, podio_app, inserted>>
    /\ UNCHANGED searchable

\* BaseRecord.__setitem__
setitem(key, value, stGet) ==
    /\ rec.kind /= "none"
    /\ NeedsGet \/ stGet = 200
    /\ IF NeedsGet /\ RaisesForStatus(stGet)
       THEN /\ lastOp' = Op("setitem", "HTTPError", GetReqs,
                            [key |-> key, value |-> value])
            /\ UNCHANGED <<rec, app_configs, assigned>>
       ELSE \E r \in {update_field(key, value, rec.item_data, get_app_config)} :
                /\ rec' = [rec EXCEPT !.item_data = r.item_json,
                                      !.tainted = IF r.res = "ok"
                                                  THEN Tainted_add(@, key)
                                                  ELSE @]
                /\ assigned' = IF r.res = "ok" THEN assigned \cup {key}
                               ELSE assigned
                /\ app_configs' = IF NeedsGet THEN app_configs \cup {AppId}
                                  ELSE app_configs
                /\ lastOp' = Op("setitem", r.res, GetReqs,
                                [key |-> key, value |-> value])
    /\ UNCHANGED <<cache_configs, cached_apps, podio_app, inserted>>
    /\ UNCHANGED searchable

\* BaseRecord.as_podio_dict(fields)
AsPodioDict(fields, stGet) ==
    /\ rec.kind /= "none"
    /\ NeedsGet \/ stGet = 200
    /\ IF NeedsGet /\ RaisesForStatus(stGet)
       THEN /\ lastOp' = Op("as_podio_dict", "HTTPError", GetReqs,
                            [fields |-> fields, podio_dict |-> << >>])
            /\ UNCHANGED app_configs
       ELSE \E r \in {as_podio_dict(rec.item_data, get_app_config, fields)} :
                /\ app_configs' = IF NeedsGet THEN app_configs \cup {AppId}
                                  ELSE app_configs
                /\ lastOp' = Op("as_podio_dict", r.res, GetReqs,
                                [fields |-> fields, podio_dict |-> r.podio_dict])
    /\ UNCHANGED <<rec, assigned, cache_configs, cached_apps, podio_app, inserted>>
    /\ UNCHANGED searchable

\* Record.save(podio_session)
Record_save(with_session, stPut) ==
    /\ rec.kind = "plain"
    /\ with_session \/ stPut = 200
    /\ \E p \in {as_podio_dict(rec.item_data, get_app_config,
                                OnlyFields(rec.tainted))} :
       \E arg \in {[tainted |-> rec.tainted, podio_dict |-> p.podio_dict,
                    status |-> stPut]} :
           lastOp' =
             IF ~with_session THEN Op("save", "Exception", <<>>, arg)
             ELSE IF p.res /= "ok" THEN Op("save", p.res, <<>>, arg)
             ELSE IF RaisesForStatus(stPut)
             THEN Op("save", "HTTPError", <<"PUT">>, arg)
             ELSE Op("save", "ok", <<"PUT">>, arg)
    /\ UNCHANGED <<rec, assigned, app_configs, cache_configs, cached_apps,
                   podio_app, inserted>>
    /\ UNCHANGED searchable

(***************************************************************************)
(* CachedItemStorage (cache.py).                                           *)
(***************************************************************************)
\* the documents recorded by a run of successful inserts, in order
RECURSIVE Recorded(_, _, _)
Recorded(hist, items, done) ==
    IF done = 0 THEN hist
    ELSE Recorded([hist EXCEPT ![Head(items).item_id] = Head(items)],
                  Tail(items), done - 1)

\* an update_item that leaves the table alone
update_item_skip(item_data) ==
    [res |-> "ok", table |-> podio_app, item_data |-> item_data]

\* CachedItemStorage.update_item
update_item(item_data) ==
    IF ~cache_configs.has
    THEN [res |-> "KeyError", table |-> podio_app, item_data |-> item_data]
    ELSE insert_item_data_into_db(podio_app, item_data.app, item_data,
                                  cache_configs.extra_fields,
                                  cache_configs.natural_key)

\* CachedItem.save
CachedItem_save(stGet, stPut) ==
    /\ rec.kind = "cached"
    /\ (rec.tainted /= {} /\ NeedsGet) \/ stGet = 200
    /\ \E p \in {as_podio_dict(rec.item_data, get_app_config,
                                OnlyFields(rec.tainted))} :
       \E u \in {update_item(rec.item_data)} :
       \E arg \in {[tainted |-> rec.tainted, podio_dict |-> p.podio_dict,
                    status |-> stPut]} :
           IF Cardinality(rec.tainted) = 0
           THEN /\ stPut = 200
                /\ lastOp' = Op("save", "ok", <<>>, arg)
                /\ UNCHANGED <<rec, assigned, app_configs, podio_app, inserted>>
           ELSE IF NeedsGet /\ RaisesForStatus(stGet)
           THEN /\ stPut = 200
                /\ lastOp' = Op("save", "HTTPError", GetReqs, arg)
                /\ UNCHANGED <<rec, assigned, app_configs, podio_app, inserted>>
           ELSE /\ app_configs' = IF NeedsGet THEN app_configs \cup {AppId}
                                  ELSE app_configs
                /\ IF p.res /= "ok"
                   THEN /\ stPut = 200
                        /\ lastOp' = Op("save", p.res, GetReqs, arg)
                        /\ UNCHANGED <<rec, assigned, podio_app, inserted>>
                   ELSE IF RaisesForStatus(stPut)
                   THEN /\ lastOp' = Op("save", "HTTPError",
                                        GetReqs \o <<"PUT">>, arg)
                        /\ UNCHANGED <<rec, assigned, podio_app, inserted>>
                   ELSE IF u.res /= "ok"
                   THEN /\ lastOp' = Op("save", u.res, GetReqs \o <<"PUT">>, arg)
                        /\ UNCHANGED <<rec, assigned, podio_app, inserted>>
                   ELSE /\ lastOp' = Op("save", "ok", GetReqs \o <<"PUT">>, arg)
                        /\ podio_app' = u.table
                        /\ rec' = [rec EXCEPT !.item_data = u.item_data,
                                              !.tainted = {}]
                        /\ assigned' = {}
                        /\ inserted' = [inserted EXCEPT
                                          ![u.item_data.item_id] = u.item_data]
    /\ UNCHANGED <<cache_configs, cached_apps>>
    /\ UNCHANGED searchable

\* CachedItemStorage.insert_item_data_into_db called on its own
InsertItemData(item_data, extra_fields, natural_key_list) ==
    /\ \E r \in {insert_item_data_into_db(podio_app, AppId, item_data,
                                          extra_fields, natural_key_list)} :
           /\ podio_app' = r.table
           /\ inserted' = IF r.res = "ok"
                          THEN [inserted EXCEPT ![r.item_data.item_id] = r.item_data]
                          ELSE inserted
           /\ lastOp' = Op("insert", r.res, <<>>,
                           [item_data |-> item_data,
                            extra_fields |-> extra_fields,
                            natural_key_list |-> natural_key_list])
    /\ UNCHANGED <<rec, assigned, app_configs, cache_configs, cached_apps>>
    /\ UNCHANGED searchable

\* CachedItemStorage.create_item: the response of the create request is the
\* document of a new item, one the cache table cannot hold yet
create_item(stPost, item_data) ==
    /\ item_data.item_id \notin {r.item_id : r \in podio_app.rows}
    /\ \E r \in {insert_item_data_into_db(podio_app, AppId, item_data,
                                          cache_configs.extra_fields,
                                          cache_configs.natural_key)} :
       \E arg \in {[item_id |-> item_data.item_id, status |-> stPost]} :
           IF ~cache_configs.has
           THEN /\ lastOp' = Op("create_item", "KeyError", <<>>, arg)
                /\ UNCHANGED <<rec, assigned, podio_app, inserted>>
           ELSE IF RaisesForStatus(stPost)
           THEN /\ lastOp' = Op("create_item", "HTTPError", <<"POST">>, arg)
                /\ UNCHANGED <<rec, assigned, podio_app, inserted>>
           ELSE IF r.res /= "ok"
           THEN /\ lastOp' = Op("create_item", r.res, <<"POST">>, arg)
                /\ UNCHANGED <<rec, assigned, podio_app, inserted>>
           ELSE /\ lastOp' = Op("create_item", "ok", <<"POST">>, arg)
                /\ podio_app' = r.table
                /\ inserted' = [inserted EXCEPT ![r.item_data.item_id] = r.item_data]
                /\ rec' = CachedItem(r.item_data)
                /\ assigned' = {}
    /\ UNCHANGED <<app_configs, cache_configs, cached_apps>>
    /\ UNCHANGED searchable

\* a delete that removes the row of the item
delete_item_row(item_id) ==
    /\ lastOp' = Op("delete_item", "ok", <<>>, [item_id |-> item_id])
    /\ podio_app' = [podio_app EXCEPT
                        !.rows = {r \in @ : r.item_id /= item_id}]
    /\ UNCHANGED <<rec, assigned, app_configs, cache_configs, cached_apps, inserted>>
    /\ UNCHANGED searchable

\* CachedItemStorage.delete_item
delete_item(item_id) ==
    /\ lastOp' = Op("delete_item", "NotImplementedError", <<>>,
                    [item_id |-> item_id])
    /\ UNCHANGED <<rec, assigned, app_configs, cache_configs, cached_apps,
                   podio_app, inserted>>
    /\ UNCHANGED searchable

\* the rows of cached_apps for this table
ConfigRows == {r \in cached_apps.rows : r.table_name = TableName}

\* CachedItemStorage.init_cache
init_cache ==
    /\ IF ~cached_apps.exists
       THEN /\ lastOp' = Op("init_cache", "OperationalError", <<>>, NoArg)
            /\ UNCHANGED cache_configs
       ELSE /\ lastOp' = Op("init_cache", "ok", <<>>, NoArg)
            /\ IF ConfigRows = {} THEN UNCHANGED cache_configs
               ELSE \E row \in ConfigRows :
                      cache_configs' =
                        [has |-> TRUE,
                         extra_fields |->
                            IF row.extra_fields.null \/ row.extra_fields.s = <<>>
                            THEN <<>> ELSE SplitOn(",", row.extra_fields.s),
                         natural_key |->
                            IF row.natural_key.null \/ row.natural_key.s = <<>>
                            THEN [none |-> TRUE, l |-> <<>>]
                            ELSE [none |-> FALSE,
                                  l |-> SplitOn(",", row.natural_key.s)]]
    /\ UNCHANGED <<rec, assigned, app_configs, cached_apps, podio_app, inserted>>
    /\ UNCHANGED searchable

\* the natural_key argument of cache_app: None (none = TRUE), one field name
\* (is_list = FALSE, the name is l[1]) or a list of names
NoNaturalKey == [none |-> TRUE, is_list |-> FALSE, l |-> <<>>]
KeyName(name) == [none |-> FALSE, is_list |-> FALSE, l |-> <<name>>]
KeyList(names) == [none |-> FALSE, is_list |-> TRUE, l |-> names]

\* natural_key_list as cache_app derives it from natural_key
NaturalKeyList(natural_key) ==
    IF natural_key.none \/ natural_key.l = <<>>
    THEN [none |-> TRUE, l |-> <<>>]
    ELSE [none |-> FALSE, l |-> natural_key.l]

\* the upsert of the configuration row at the start of cache_app
UpsertConfig(extra_fields, natural_key) ==
    LET ef == SqlText(JoinWith(",", extra_fields))
        nk == SqlText(JoinWith(",", natural_key.l))
    IN  IF natural_key.none
        THEN IF ConfigRows = {}
             THEN cached_apps.rows \cup
                    {[table_name |-> TableName, extra_fields |-> ef,
                      natural_key |-> SqlNull]}
             ELSE {IF r \in ConfigRows THEN [r EXCEPT !.extra_fields = ef] ELSE r :
                      r \in cached_apps.rows}
        ELSE IF ConfigRows = {}
             THEN cached_apps.rows \cup
                    {[table_name |-> TableName, extra_fields |-> ef,
                      natural_key |-> nk]}
             ELSE {IF r \in ConfigRows
                   THEN [r EXCEPT !.extra_fields = ef, !.natural_key = nk] ELSE r :
                      r \in cached_apps.rows}

\* the __natural_key string insert_item_data_into_db derives for a document
DerivedKey(item_data, natural_key_list) ==
    JoinWith("-", [i \in 1..Len(natural_key_list.l) |->
                      PercentS(ItemGet(item_data, natural_key_list.l[i]).val)])

\* two fetched items with different item_id derive the same __natural_key
KeysCollide(items, natural_key_list) ==
    /\ ~natural_key_list.none
    /\ \E i, j \in 1..Len(items) :
          /\ items[i].item_id /= items[j].item_id
          /\ DerivedKey(items[i], natural_key_list)
                = DerivedKey(items[j], natural_key_list)

\* CachedItemStorage.cache_app.  fetched tells whether iterate_resource
\* returned the items of the collection or raised on a bad response.
cache_app(extra_fields, natural_key, fetched, items) ==
    /\ fetched \/ items = <<>>
    /\ \E natural_key_list \in {NaturalKeyList(natural_key)} :
       \E t1 \in {CreateTableIfNotExists(podio_app, ~natural_key_list.none,
                                         extra_fields)} :
       \E ins \in {InsertAll(t1, AppId, items, extra_fields, natural_key_list)} :
       \E ix \in {CreateUniqueIndex(ins.table)} :
       \E arg \in {[extra_fields |-> extra_fields,
                    natural_key_list |-> natural_key_list,
                    collide |-> KeysCollide(items, natural_key_list)]} :
           /\ cached_apps' = [exists |-> TRUE,
                              rows |-> UpsertConfig(extra_fields, natural_key_list)]
           /\ IF ~fetched
              THEN /\ podio_app' = t1
                   /\ inserted' = inserted
                   /\ lastOp' = Op("cache_app", "Exception", <<"POST_FILTER">>, arg)
              ELSE /\ inserted' = Recorded(inserted, items, ins.done)
                   /\ IF ins.res /= "ok"
                      THEN /\ podio_app' = ins.table
                           /\ lastOp' = Op("cache_app", ins.res, <<"POST_FILTER">>, arg)
                      ELSE IF natural_key_list.none
                      THEN /\ podio_app' = ins.table
                           /\ lastOp' = Op("cache_app", "ok", <<"POST_FILTER">>, arg)
                      ELSE /\ podio_app' = ix.table
                           /\ lastOp' = Op("cache_app", ix.res, <<"POST_FILTER">>, arg)
    /\ UNCHANGED <<rec, assigned, app_configs, cache_configs>>
    /\ UNCHANGED searchable

(***************************************************************************)
(* Lookups (cache.py).                                                     *)
(***************************************************************************)
\* clean_params of _find_item_sql: a list parameter is bound as its repr
CleanParam(v) ==
    IF v.k = "none" THEN SqlNull
    ELSE IF v.k = "list" THEN SqlText(<<"[", "]">>)
    ELSE SqlText(v.s)

\* the WHERE clause '"key" = ?' on one row.  A double-quoted name that is
\* not a column of the table is a string literal when the SQLite build
\* accepts double-quoted string literals (dqs), and an error otherwise.
ClauseHolds(table, row, clause, dqs) ==
    LET param == CleanParam(clause.val)
    IN  IF clause.key \in table.extra_cols
        THEN ~row.extra[clause.key].null /\ ~param.null
             /\ row.extra[clause.key].s = param.s
        ELSE dqs /\ ~param.null /\ clause.key = param.s

UnknownColumn(table, select_for) ==
    \E i \in 1..Len(select_for) : select_for[i].key \notin table.extra_cols

\* a lookup that settles duplicates by taking one of the rows
find_item_sql_first(found) ==
    IF Cardinality(found) = 0 THEN [res |-> "CachedItemNotFound", item |-> NoRec]
    ELSE [res |-> "ok",
          item |-> CachedItem(json_loads((CHOOSE r \in found : TRUE).item_data))]

\* CachedItemStorage._find_item_sql on the rows the query returned
find_item_sql(found) ==
    IF Cardinality(found) = 0 THEN [res |-> "CachedItemNotFound", item |-> NoRec]
    ELSE IF Cardinality(found) = 1
    THEN [res |-> "ok",
          item |-> CachedItem(json_loads((CHOOSE r \in found : TRUE).item_data))]
    ELSE [res |-> "Exception", item |-> NoRec]

\* a lookup returns the item it found (item) or raises; ran tells whether the
\* query was executed, matched holds the item ids of the rows it returned
\* and item_ids is the list of allowed ids the lookup was called with
Found(op, r, ran, matched, item_ids) ==
    /\ lastOp' = Op(op, r.res, <<>>,
                    [item |-> r.item, ran |-> ran, matched |-> matched,
                     item_ids |-> item_ids])
    /\ UNCHANGED <<rec, assigned, app_configs, cache_configs, cached_apps,
                   podio_app, inserted>>
    /\ UNCHANGED searchable

Ids(rows) == {r.item_id : r \in rows}

OperationalError == [res |-> "OperationalError", item |-> NoRec]

\* CachedItemStorage.get_item: the caller takes the returned item as the
\* record to work on
get_item(item_id) ==
    \E found \in {{r \in podio_app.rows : r.item_id = item_id}} :
    \E res \in {IF ~podio_app.exists THEN "OperationalError"
                ELSE IF found = {} THEN "TypeError"
                ELSE "ok"} :
        /\ lastOp' = Op("get_item", res, <<>>, [item_id |-> item_id])
        /\ rec' = IF res = "ok"
                  THEN CachedItem(json_loads((CHOOSE r \in found : TRUE).item_data))
                  ELSE rec
        /\ assigned' = IF res = "ok" THEN {} ELSE assigned
        /\ UNCHANGED <<app_configs, cache_configs, cached_apps, podio_app, inserted,
                       searchable>>

\* CachedItemStorage.get_item_by_join_ids
get_item_by_join_ids(select_for, dqs) ==
    /\ UnknownColumn(podio_app, select_for) \/ dqs
    /\ \E found \in {{r \in podio_app.rows :
                          \A i \in 1..Len(select_for) :
                              ClauseHolds(podio_app, r, select_for[i], dqs)}} :
           IF \/ ~podio_app.exists
              \/ Len(select_for) = 0
              \/ UnknownColumn(podio_app, select_for) /\ ~dqs
           THEN Found("get_item_by_join_ids", OperationalError, FALSE, {}, <<>>)
           ELSE Found("get_item_by_join_ids", find_item_sql(found), TRUE, Ids(found),
                      <<>>)

\* a lookup that ignores the list of allowed item ids
get_referenced_item_all(item_ids, select_for, dqs) ==
    /\ UnknownColumn(podio_app, select_for) \/ dqs
    /\ \E found \in {{r \in podio_app.rows :
                          \A i \in 1..Len(select_for) :
                              ClauseHolds(podio_app, r, select_for[i], dqs)}} :
           IF \/ ~podio_app.exists
              \/ UnknownColumn(podio_app, select_for) /\ ~dqs
           THEN Found("get_referenced_item", OperationalError, FALSE, {}, item_ids)
           ELSE Found("get_referenced_item", find_item_sql(found), TRUE, Ids(found),
                      item_ids)

\* CachedItemStorage.get_referenced_item
get_referenced_item(item_ids, select_for, dqs) ==
    /\ UnknownColumn(podio_app, select_for) \/ dqs
    /\ \E found \in {{r \in podio_app.rows :
                          /\ \A i \in 1..Len(select_for) :
                                ClauseHolds(podio_app, r, select_for[i], dqs)
                          /\ \E j \in 1..Len(item_ids) : r.item_id = item_ids[j]}} :
           IF Len(item_ids) = 0
           THEN Found("get_referenced_item",
                      [res |-> "CachedItemNotFound", item |-> NoRec], FALSE, {},
                      item_ids)
           ELSE IF \/ ~podio_app.exists
                   \/ UnknownColumn(podio_app, select_for) /\ ~dqs
           THEN Found("get_referenced_item", OperationalError, FALSE, {}, item_ids)
           ELSE Found("get_referenced_item", find_item_sql(found), TRUE, Ids(found),
                      item_ids)

\* the key argument of get_item_by_natural_key: a str (is_list = FALSE, the
\* string is l[1]) or a list of strings
KeyStr(s) == [is_list |-> FALSE, l |-> <<s>>]
KeyStrs(l) == [is_list |-> TRUE, l |-> l]

\* '-'.join(key): a str is an Iterable of its characters
KeyVal(key) ==
    IF key.is_list THEN JoinWith("-", key.l)
    ELSE JoinWith("-", [i \in 1..Len(key.l[1]) |-> <<key.l[1][i]>>])

\* CachedItemStorage.get_item_by_natural_key
get_item_by_natural_key(key) ==
    \E key_val \in {KeyVal(key)} :
    \E found \in {{r \in podio_app.rows :
                      ~r.natural_key.null /\ r.natural_key.s = key_val}} :
        IF ~podio_app.exists \/ ~podio_app.has_nk
        THEN Found("get_item_by_natural_key", OperationalError, FALSE, {}, <<>>)
        ELSE Found("get_item_by_natural_key", find_item_sql(found), TRUE, Ids(found),
                   <<>>)

(***************************************************************************)
(* Inputs of the calls.                                                    *)
(***************************************************************************)
\* field descriptors used with record[...]
Descriptors == {sN, sAB, sA_B, sNx, sC, sM, sZ}

\* documents a Record is constructed from
RecordDocs == {MkDoc(1, AppId, sX), MkDoc(1, AppId, sY), MoneyDoc(1, AppId, sX),
               HyphenDoc(1, AppId, sX)}

\* values assigned to fields
Values == {PyNone, PyStr(sX), PyStr(sSpY)}

\* the fields arguments of as_podio_dict
FieldFilters == {AllFields, OnlyFields({sN}), OnlyFields({sN, sC}),
                 OnlyFields({sAB, sM}), OnlyFields({sC})}

\* extra_fields arguments
ExtraFieldLists == {<<>>, <<sN>>}

\* natural_key arguments of cache_app
NaturalKeys == {NoNaturalKey, KeyList(<<sN>>)}

\* natural_key_list arguments of insert_item_data_into_db
NaturalKeyLists == {NaturalKeyList(k) : k \in NaturalKeys}

\* select_for arguments: ordered column/value pairs
Clause(key, s) == [key |-> key, val |-> PyStr(s)]
SelectFors == {<<>>, <<Clause(sN, sX)>>, <<Clause(sN, sY)>>,
               <<Clause(sN, sX), Clause(sAB, sNone)>>}

\* item_ids arguments of get_referenced_item
ItemIdLists == {<<>>} \cup {<<i>> : i \in ItemIds}
               \cup {<<i, j>> : i \in {1}, j \in ItemIds \ {1}}

\* key arguments of get_item_by_natural_key
Keys == {KeyStr(sX), KeyStr(sY), KeyStrs(<<sX>>)}

(***************************************************************************)
(* Records on their own: a Record is constructed, read, assigned to,       *)
(* serialized and saved.                                                   *)
(***************************************************************************)
NextRecord ==
    \/ \E d \in RecordDocs, c \in BOOLEAN : NewRecord(d, c)
    \/ \E k \in Descriptors : getitem(k, 200)
    \/ \E k \in Descriptors, v \in Values : setitem(k, v, 200)
    \/ \E f \in FieldFilters : AsPodioDict(f, 200)
    \/ \E b \in BOOLEAN, st \in Statuses : Record_save(b, st)

SpecRecord == Init /\ [][NextRecord]_vars

(***************************************************************************)
(* Population of the cache table: full refreshes and single upserts.       *)
(***************************************************************************)
Next ==
    \/ \E d \in RemoteDocs, n \in NaturalKeyLists : InsertItemData(d, <<>>, n)
    \/ \E n \in NaturalKeys, f \in BOOLEAN, c \in Collections :
          cache_app(<<>>, n, f, c)

Spec == Init /\ [][Next]_vars

(***************************************************************************)
(* Saving: records are constructed or loaded from the cache, assigned to   *)
(* and saved.                                                              *)
(***************************************************************************)
NextSave ==
    \/ NewRecord(MkDoc(1, AppId, sX), TRUE)
    \/ \E k \in {sN}, v \in {PyStr(sX), PyStr(sSpY)}, st \in Statuses :
          setitem(k, v, st)
    \/ \E st \in Statuses : Record_save(TRUE, st)
    \/ \E sg \in Statuses, sp \in Statuses : CachedItem_save(sg, sp)
    \/ \E i \in ItemIds : get_item(i)
    \/ init_cache
    \/ \E c \in Collections : cache_app(<<>>, KeyList(<<sN>>), TRUE, c)

SpecSave == Init /\ [][NextSave]_vars

(***************************************************************************)
(* Lookups in a populated cache table.                                     *)
(***************************************************************************)
NextLookup ==
    \/ \E n \in NaturalKeys, f \in BOOLEAN, c \in Collections :
          cache_app(<<sN>>, n, f, c)
    \/ \E s \in SelectFors, q \in BOOLEAN : get_item_by_join_ids(s, q)
    \/ \E l \in ItemIdLists, s \in SelectFors, q \in BOOLEAN :
          get_referenced_item(l, s, q)
    \/ \E k \in Keys : get_item_by_natural_key(k)

SpecLookup == Init /\ [][NextLookup]_vars

(***************************************************************************)
(* Properties of records.                                                  *)
(***************************************************************************)
\* C1: starting from a record with nothing tainted, after any sequence of
\* successful assignments the tainted set is the set of the distinct field
\* descriptors assigned: independent of the order, and of size 1 when one
\* descriptor was assigned repeatedly.
C1_TaintedIsAssigned ==
    rec.kind = "plain" =>
        /\ rec.tainted = assigned
        /\ (lastOp.op = "setitem" /\ lastOp.res = "ok") =>
               lastOp.arg.key \in rec.tainted

\* two different fields were assigned, the second one just now
C1_Witness ==
    /\ rec.kind = "plain"
    /\ lastOp.op = "setitem" /\ lastOp.res = "ok"
    /\ rec.tainted = {sN, sAB}

\* the source of the fields as_podio_dict iterates over
C2_AppFields ==
    IF get_app_config.present THEN get_app_config.fields ELSE rec.item_data.fields

\* C2: when as_podio_dict(fields=F) returns, the keys of the mapping are
\* exactly the external ids of the non-calculation fields of the schema (of
\* the document when there is no schema) that are in F, all of them when no
\* filter is given; a calculation field is never a key.
C2_PayloadKeys ==
    (lastOp.op = "as_podio_dict" /\ lastOp.res = "ok") =>
        LET F == lastOp.arg.fields
            expected == {C2_AppFields[i].external_id : i \in
                            {j \in 1..Len(C2_AppFields) :
                                /\ C2_AppFields[j].type /= "calculation"
                                /\ F.all \/ C2_AppFields[j].external_id \in F.set}}
        IN  /\ DOMAIN lastOp.arg.podio_dict = expected
            /\ \A j \in 1..Len(C2_AppFields) :
                  C2_AppFields[j].type = "calculation" =>
                      C2_AppFields[j].external_id \notin DOMAIN lastOp.arg.podio_dict

\* a filter naming a text field and the calculation field, on a record with
\* a schema of three fields, gave the text field only
C2_Witness ==
    /\ lastOp.op = "as_podio_dict" /\ lastOp.res = "ok"
    /\ rec.with_config
    /\ lastOp.arg.fields = OnlyFields({sN, sC})
    /\ DOMAIN lastOp.arg.podio_dict = {sN}

(***************************************************************************)
(* Properties of save().                                                   *)
(***************************************************************************)
\* the last call was save() and it sent the partial update
SentPut == lastOp.op = "save" /\ "PUT" \in {lastOp.reqs[i] : i \in DOMAIN lastOp.reqs}

\* a failed HTTP status
FailedStatus(st) == st >= 400

\* C3: save() on a record with nothing tainted sends no request to the
\* remote service (and changes neither the document, the tainted set nor the
\* cache), for a plain record and for a cache-backed record.
C3_EmptySaveSendsNothing ==
    (lastOp.op = "save" /\ lastOp.arg.tainted = {}) => lastOp.reqs = <<>>

\* C4: when the partial update sent by save() returned a success status,
\* the tainted set of the record is empty once save() has finished, for a
\* plain record and for a cache-backed record.
C4_SavedIsClean ==
    (SentPut /\ ~FailedStatus(lastOp.arg.status)) => rec.tainted = {}

\* C5: when the partial update sent by save() returns a failed status,
\* save() raises, the tainted set is what it was before the call and the
\* cache table is not written.
C5_FailedSaveKeepsState ==
    [][(/\ lastOp'.op = "save"
        /\ "PUT" \in {lastOp'.reqs[i] : i \in DOMAIN lastOp'.reqs}
        /\ FailedStatus(lastOp'.arg.status))
       => /\ lastOp'.res = "HTTPError"
          /\ rec'.tainted = rec.tainted
          /\ rec'.tainted = lastOp'.arg.tainted
          /\ podio_app' = podio_app]_vars

\* a cache-backed record with a tainted field, whose item has a row in the
\* loaded cache, was saved and the remote service answered with a failure
C5_Witness ==
    /\ SentPut /\ FailedStatus(lastOp.arg.status)
    /\ rec.kind = "cached" /\ rec.tainted /= {}
    /\ cache_configs.has
    /\ rec.item_data.item_id \in {r.item_id : r \in podio_app.rows}
    /\ lastOp.res = "HTTPError"

\* C6: after a successful save() of a cache-backed record with a tainted
\* field, the one row of the cache table with the record's item_id holds the
\* record's document, so that get_item gives a record with the values that
\* were sent.
C6_SavedRowIsCurrent ==
    (/\ lastOp.op = "save" /\ lastOp.res = "ok"
     /\ rec.kind = "cached" /\ lastOp.arg.tainted /= {})
    => LET rows == {r \in podio_app.rows : r.item_id = rec.item_data.item_id}
       IN  /\ Cardinality(rows) = 1
           /\ \A r \in rows :
                 LET loaded == CachedItem(json_loads(r.item_data))
                 IN  /\ loaded.item_data = rec.item_data
                     /\ \A k \in DOMAIN lastOp.arg.podio_dict :
                           lastOp.arg.podio_dict[k].k = "str" =>
                               fetch_field(k, loaded.item_data, AppConfig).val
                                   = lastOp.arg.podio_dict[k]

\* a cache-backed record whose field n was set to " y" was saved: the row
\* holds the stripped value, which differs from what was cached before
C6_Witness ==
    /\ lastOp.op = "save" /\ lastOp.res = "ok"
    /\ rec.kind = "cached" /\ lastOp.arg.tainted = {sN}
    /\ lastOp.arg.podio_dict[sN] = PyStr(sY)
    /\ \E r \in podio_app.rows :
          /\ r.item_id = rec.item_data.item_id
          /\ fetch_field(sN, json_loads(r.item_data), AppConfig).val = PyStr(sY)

(***************************************************************************)
(* Properties of the cache table.                                          *)
(***************************************************************************)
\* the result of inserting a document into the table as it is now
C7_Insert(d, n) == insert_item_data_into_db(podio_app, AppId, d, <<>>, n)

\* C7: after any sequence of insert_item_data_into_db calls the table holds
\* at most one row per item_id, the row's item_data is the document inserted
\* last for that item_id, and inserting the same document a second time
\* leaves the table as it was after the first insertion.
C7_Upsert ==
    /\ \A r1, r2 \in podio_app.rows : r1.item_id = r2.item_id => r1 = r2
    /\ \A r \in podio_app.rows : json_loads(r.item_data) = inserted[r.item_id]
    /\ \A d \in RemoteDocs, n \in NaturalKeyLists :
          C7_Insert(d, n).res = "ok" =>
              insert_item_data_into_db(C7_Insert(d, n).table, AppId, d, <<>>, n).table
                  = C7_Insert(d, n).table
    /\ (lastOp.op = "insert" /\ lastOp.res = "ok") =>
          /\ \E r \in podio_app.rows :
                json_loads(r.item_data) = lastOp.arg.item_data
          /\ insert_item_data_into_db(podio_app, AppId, lastOp.arg.item_data,
                                      lastOp.arg.extra_fields,
                                      lastOp.arg.natural_key_list).table = podio_app

\* a document was inserted for an item whose row held another document
\* before, while the table holds a row of another item as well
C7_Witness ==
    /\ lastOp.op = "insert" /\ lastOp.res = "ok"
    /\ lastOp.arg.item_data = MkDoc(1, AppId, sY)
    /\ Cardinality(podio_app.rows) = 2
    /\ \E r \in podio_app.rows : json_loads(r.item_data) = MkDoc(1, AppId, sY)

\* C8: every cache_app call with a declared natural key whose fetched
\* collection holds two items with different item_id and equal derived
\* __natural_key does not finish normally (it raises an integrity error),
\* on the first call for the app and on a repeated one.
C8_CollisionRaises ==
    (/\ lastOp.op = "cache_app"
     /\ ~lastOp.arg.natural_key_list.none
     /\ lastOp.arg.collide)
    => lastOp.res /= "ok"

\* C9: an item_id once present in the cache table stays present over every
\* cache_app and insert_item_data_into_db call.
C9_RowsStay ==
    [][\A i \in ItemIds : i \in Ids(podio_app.rows) => i \in Ids(podio_app'.rows)]_vars

(***************************************************************************)
(* Properties of the lookups.                                              *)
(***************************************************************************)
Lookups == {"get_item_by_join_ids", "get_referenced_item",
            "get_item_by_natural_key"}

\* C10: a lookup whose query ran returns the item of the matching row when
\* exactly one row matches, raises CachedItemNotFound when no row matches,
\* and raises another error when two or more rows match.
C10_Trichotomy ==
    (lastOp.op \in Lookups /\ lastOp.arg.ran) =>
        LET n == Cardinality(lastOp.arg.matched)
        IN  /\ n = 0 => lastOp.res = "CachedItemNotFound"
            /\ n = 1 => /\ lastOp.res = "ok"
                        /\ \E r \in podio_app.rows :
                              /\ r.item_id \in lastOp.arg.matched
                              /\ lastOp.arg.item.kind = "cached"
                              /\ lastOp.arg.item.item_data = json_loads(r.item_data)
            /\ n >= 2 => lastOp.res \notin {"ok", "CachedItemNotFound"}

\* a lookup by natural key matched two rows and raised
C10_Witness ==
    /\ lastOp.op = "get_item_by_natural_key" /\ lastOp.arg.ran
    /\ Cardinality(lastOp.arg.matched) = 2
    /\ lastOp.res = "Exception"

(***************************************************************************)
(* Properties of the primary-key lookup.                                   *)
(***************************************************************************)
\* C11: get_item raises CachedItemNotFound when the app's table has no row
\* with the item_id, and returns the record built from the row's document
\* when the row exists.
C11_GetItem ==
    (lastOp.op = "get_item" /\ podio_app.exists) =>
        LET rows == {r \in podio_app.rows : r.item_id = lastOp.arg.item_id}
        IN  /\ rows = {} => lastOp.res = "CachedItemNotFound"
            /\ \A r \in rows :
                  /\ lastOp.res = "ok"
                  /\ rec = CachedItem(json_loads(r.item_data))

\* C12: get_referenced_item with an empty list of allowed item ids raises
\* CachedItemNotFound without running a query, whatever select_for is and
\* whatever the table holds; with a non-empty list it only returns an item
\* whose item_id is in the list.
C12_AllowList ==
    lastOp.op = "get_referenced_item" =>
        /\ lastOp.arg.item_ids = <<>> => /\ lastOp.res = "CachedItemNotFound"
                                         /\ ~lastOp.arg.ran
                                         /\ lastOp.reqs = <<>>
        /\ lastOp.res = "ok" =>
              \E j \in 1..Len(lastOp.arg.item_ids) :
                  lastOp.arg.item.item_data.item_id = lastOp.arg.item_ids[j]

\* the lookup was called with no allowed item id on a table that holds rows
C12_Witness ==
    /\ lastOp.op = "get_referenced_item"
    /\ lastOp.arg.item_ids = <<>>
    /\ lastOp.res = "CachedItemNotFound" /\ ~lastOp.arg.ran
    /\ podio_app.rows /= {}

(***************************************************************************)
(* Lookups by natural key: an app whose key field holds values of one and  *)
(* of two characters is cached with a key of one or of two components.     *)
(***************************************************************************)
sXY == <<"x", "y">>

\* item documents of the app
KeyDocs == {MkDoc(id, AppId, n) : id \in ItemIds, n \in {sX, sXY}}

\* item collections the filter resource can return
KeyCollections ==
    {c \in UNION {[1..n -> KeyDocs] : n \in 0..MaxItems} :
        \A i, j \in 1..Len(c) : i < j => c[i].item_id < c[j].item_id}

\* natural_key arguments of cache_app: one field name, a list of two names
KeyDeclarations == {KeyName(sN), KeyList(<<sN, sC>>)}

\* key arguments of get_item_by_natural_key
KeyInputs == {KeyStr(sX), KeyStr(sXY), KeyStrs(<<sXY>>), KeyStrs(<<sXY, sX>>)}

NextKey ==
    \/ \E n \in KeyDeclarations, c \in KeyCollections : cache_app(<<>>, n, TRUE, c)
    \/ \E k \in KeyInputs : get_item_by_natural_key(k)

SpecKey == Init /\ [][NextKey]_vars

\* the __natural_key string a key argument stands for: the string itself,
\* or the components of a list joined with '-'
C13_KeyString(key) == IF key.is_list THEN JoinWith("-", key.l) ELSE key.l[1]

\* C13: for an app cached with a natural key, get_item_by_natural_key
\* returns the item whose __natural_key equals the key: the string itself
\* for a key given as one string of any length, the components joined with
\* '-' for a key given as a list.
C13_FindsByKey ==
    [][\A k \in KeyInputs :
          (get_item_by_natural_key(k) /\ podio_app.exists /\ podio_app.has_nk) =>
              \A r \in podio_app.rows :
                  (/\ r.natural_key = SqlText(C13_KeyString(k))
                   /\ \A r2 \in podio_app.rows :
                         r2.natural_key = r.natural_key => r2 = r)
                  => /\ lastOp'.res = "ok"
                     /\ lastOp'.arg.item = CachedItem(json_loads(r.item_data))]_vars

(***************************************************************************)
(* Properties of cache_app.                                                *)
(***************************************************************************)
\* C14: after any sequence of cache_app calls the control table holds
\* exactly one row for the app, whose extra_fields and natural_key are those
\* the most recent call declared (no natural key is stored as NULL).
C14_ConfigIsLatest ==
    lastOp.op = "cache_app" =>
        /\ Cardinality(ConfigRows) = 1
        /\ \A r \in ConfigRows :
              /\ r.extra_fields = SqlText(JoinWith(",", lastOp.arg.extra_fields))
              /\ r.natural_key =
                    IF lastOp.arg.natural_key_list.none THEN SqlNull
                    ELSE SqlText(JoinWith(",", lastOp.arg.natural_key_list.l))

(***************************************************************************)
(* Re-invocation of cache_app with other extra fields and natural keys.    *)
(***************************************************************************)
NextEvolve ==
    \E e \in ExtraFieldLists, n \in NaturalKeys, c \in Collections :
        cache_app(e, n, TRUE, c)

SpecEvolve == Init /\ [][NextEvolve]_vars

\* C15: a cache_app call whose fetch succeeded (and whose items do not
\* collide on the natural key) succeeds also when the app was cached before
\* with other extra fields or another natural key: afterwards the table has a
\* column for every requested extra field, and __natural_key when a key is
\* declared.
C15_SchemaEvolves ==
    (lastOp.op = "cache_app" /\ ~lastOp.arg.collide) =>
        /\ lastOp.res = "ok"
        /\ \A i \in 1..Len(lastOp.arg.extra_fields) :
              lastOp.arg.extra_fields[i] \in podio_app.extra_cols
        /\ ~lastOp.arg.natural_key_list.none => podio_app.has_nk

\* C16: when fetching the item collection fails, cache_app raises and the
\* persisted state of the app is what it was before the call: no item row is
\* inserted or replaced and the configuration row in the control table is
\* not changed.
C16_FailedFetchKeepsState ==
    [][(lastOp'.op = "cache_app" /\ lastOp'.res = "Exception")
       => /\ podio_app'.rows = podio_app.rows
          /\ cached_apps' = cached_apps]_vars

\* the natural key the most recent cache_app call stored for the app
C17_ConfiguredKey(row) ==
    IF row.natural_key.null \/ row.natural_key.s = <<>>
    THEN [none |-> TRUE, l |-> <<>>]
    ELSE [none |-> FALSE, l |-> SplitOn(",", row.natural_key.s)]

\* C17: save() of a cache-backed record whose partial update succeeded
\* projects the record with the configuration of the most recent cache_app
\* call for the app, also when init_cache was not called after it: the call
\* returns and the record's row carries the natural key derived with the
\* configured key fields.
C17_SaveUsesCurrentConfig ==
    (/\ SentPut /\ rec.kind = "cached" /\ ~FailedStatus(lastOp.arg.status)
     /\ ConfigRows /= {})
    => /\ lastOp.res = "ok"
       /\ \A c \in ConfigRows :
          \A r \in podio_app.rows :
              (r.item_id = rec.item_data.item_id /\ ~C17_ConfiguredKey(c).none)
              => r.natural_key =
                    SqlText(DerivedKey(rec.item_data, C17_ConfiguredKey(c)))

(***************************************************************************)
(* Creating and deleting items through the store.                          *)
(***************************************************************************)
NextCreate ==
    \/ init_cache
    \/ \E c \in Collections : cache_app(<<>>, KeyList(<<sN>>), TRUE, c)
    \/ \E st \in Statuses, d \in RemoteDocs : create_item(st, d)
    \/ \E i \in ItemIds : get_item(i)
    \/ \E i \in ItemIds : delete_item(i)

SpecCreate == Init /\ [][NextCreate]_vars

\* C18: create_item sends one create request; when the request succeeds
\* the returned document is projected into the cache, so that its row holds
\* it, and a cache-backed record of the document is returned; when the
\* request fails create_item raises and no row is added or changed.
C18_CreateItem ==
    [][lastOp'.op = "create_item" =>
          /\ lastOp'.reqs = <<"POST">>
          /\ ~FailedStatus(lastOp'.arg.status) =>
                /\ lastOp'.res = "ok"
                /\ rec'.kind = "cached"
                /\ rec'.item_data.item_id = lastOp'.arg.item_id
                /\ \E r \in podio_app'.rows :
                      /\ r.item_id = lastOp'.arg.item_id
                      /\ json_loads(r.item_data) = rec'.item_data
          /\ FailedStatus(lastOp'.arg.status) =>
                /\ lastOp'.res = "HTTPError"
                /\ podio_app' = podio_app]_vars

\* C19: delete_item signals 'not implemented' for every item, sends no
\* request and leaves the cache table and the control table unchanged.
C19_DeleteNotImplemented ==
    [][lastOp'.op = "delete_item" =>
          /\ lastOp'.res = "NotImplementedError"
          /\ lastOp'.reqs = <<>>
          /\ podio_app' = podio_app
          /\ cached_apps' = cached_apps]_vars

\* delete_item was called for an item that has a row in the cache table
C19_Witness ==
    /\ lastOp.op = "delete_item" /\ lastOp.res = "NotImplementedError"
    /\ lastOp.arg.item_id \in Ids(podio_app.rows)

(***************************************************************************)
(* Properties of field resolution.                                         *)
(***************************************************************************)
\* the descriptor resolves, on the record in hand, to a field whose type
\* has no registered mediator
C20_Unsupported(key) ==
    LET f == get_field_from_podio_json_list(
                 rec.item_data, split_descriptor_parts(key).external_id,
                 get_app_config)
    IN  f.tag = "field" /\ f.field.type \notin MEDIATORS

\* C20: resolving a field whose type is not a registered mediator type
\* raises the unsupported-type error in get, in set and in payload building;
\* it never returns a value or skips the field, and a set leaves the
\* document and the tainted set unchanged.
C20_UnsupportedTypeRaises ==
    [][/\ (lastOp'.op \in {"getitem", "setitem"}
           /\ C20_Unsupported(lastOp'.arg.key))
          => /\ lastOp'.res = "NotImplementedError"
             /\ rec' = rec
       /\ (/\ lastOp'.op = "as_podio_dict"
           /\ \E j \in 1..Len(C2_AppFields) :
                 /\ C2_AppFields[j].type /= "calculation"
                 /\ \/ lastOp'.arg.fields.all
                    \/ C2_AppFields[j].external_id \in lastOp'.arg.fields.set
                 /\ C20_Unsupported(C2_AppFields[j].external_id))
          => lastOp'.res = "NotImplementedError"]_vars

\* a money field, for which no mediator is registered, was read
C20_Witness ==
    /\ lastOp.op = "getitem" /\ lastOp.arg.key = sM
    /\ C20_Unsupported(sM)
    /\ lastOp.res = "NotImplementedError"

(***************************************************************************)
(* Properties of field resolution: where a field is found.                 *)
(***************************************************************************)
\* the external id a descriptor is looked up with
C21_Ext(key) == ReplaceUnderscore(split_descriptor_parts(key).external_id)

\* the fields of the record in hand that carry this external id
C21_InItem(key) ==
    {i \in 1..Len(rec.item_data.fields) :
        rec.item_data.fields[i].external_id = C21_Ext(key)}

\* the fields of the record's schema, if it has one, with this external id
C21_InSchema(key) ==
    {j \in 1..Len(get_app_config.fields) :
        get_app_config.present /\ get_app_config.fields[j].external_id = C21_Ext(key)}

\* C21: field resolution has three outcomes.  A field present in the item's
\* field list is returned from the item (get gives its value); a field that
\* is absent from the item but present in the supplied schema is returned
\* from the schema, and get yields None; a field absent from both raises the
\* field-not-found error when a schema is supplied, and get returns None
\* without raising when there is no schema.
C21_ThreeOutcomes ==
    lastOp.op = "getitem" =>
        LET key == lastOp.arg.key
            has_param == split_descriptor_parts(key).has_param
        IN  /\ \A i \in C21_InItem(key) :
                  (\A j \in C21_InItem(key) : i <= j) =>
                      LET f == rec.item_data.fields[i]
                      IN  /\ lastOp.res /= "KeyError"
                          /\ f.type \in MEDIATORS => lastOp.res = "ok"
                          /\ (f.type = "text" /\ ~has_param /\ f.values /= <<>>)
                                => /\ lastOp.arg.val.k = "str"
                                   /\ lastOp.arg.val.s = f.values[1].value
            /\ (C21_InItem(key) = {} /\ C21_InSchema(key) /= {})
                  => lastOp.res = "ok" /\ lastOp.arg.val.k = "none"
            /\ (C21_InItem(key) = {} /\ C21_InSchema(key) = {})
                  => IF get_app_config.present
                     THEN lastOp.res = "KeyError"
                     ELSE lastOp.res = "ok" /\ lastOp.arg.val.k = "none"

\* a field that only the schema knows was read and gave None
C21_Witness ==
    /\ lastOp.op = "getitem" /\ lastOp.arg.key = sA_B
    /\ rec.with_config
    /\ C21_InItem(sA_B) = {} /\ C21_InSchema(sA_B) /= {}
    /\ lastOp.res = "ok" /\ lastOp.arg.val.k = "none"

\* C22: after record[d] = v succeeded for a descriptor d that resolves to
\* field f, the document holds exactly one entry for f, whose values are the
\* mediator's update result for v, so that the payload for f reflects v: the
\* stripped string for a text field and a string, the empty list for None.
C22_AssignmentWrites ==
    (lastOp.op = "setitem" /\ lastOp.res = "ok") =>
        LET key == lastOp.arg.key
            v == lastOp.arg.value
        IN  /\ Cardinality(C21_InItem(key)) = 1
            /\ \A i \in C21_InItem(key) :
                  LET f == rec.item_data.fields[i]
                      payload == fetch_podio_dict(C21_Ext(key), rec.item_data,
                                                  get_app_config)
                  IN  /\ f.has_values
                      /\ f.values = Mediator_update(f.type, f, v).values
                      /\ f.type = "text" =>
                            /\ payload.res = "ok"
                            /\ payload.val.k = IF v.k = "none" THEN "list" ELSE "str"
                            /\ payload.val.s = IF v.k = "none" THEN <<>>
                                               ELSE Strip(v.s)

\* the external ids of the fields of a field list
C23_ExternalIds(fields) == {fields[i].external_id : i \in 1..Len(fields)}

\* C23: in every reachable state of a record, each element of its tainted
\* set is the external id of a field of the associated app schema, if one is
\* known, or of the record's field list.
C23_TaintedNamesFields ==
    rec.kind = "plain" =>
        \A k \in rec.tainted :
            \/ get_app_config.present /\ k \in C23_ExternalIds(get_app_config.fields)
            \/ k \in C23_ExternalIds(rec.item_data.fields)

\* the descriptor with the underscores of its external id written as hyphens
C27_HyphenForm(key) ==
    LET parts == split_descriptor_parts(key)
    IN  IF parts.has_param
        THEN ReplaceUnderscore(parts.external_id) \o <<"_", "_">> \o parts.field_param
        ELSE ReplaceUnderscore(parts.external_id)

\* C27: a descriptor is split at its first '__' into external id and
\* modifier and the underscores of the external id are read as hyphens: a
\* field of the document with the wire external id 'a-b' is resolved by the
\* descriptor 'a_b' (and 'a_b__m'), for get, which gives what the hyphen form
\* gives, and for set, which sets the values of that field.
C27_UnderscoreResolves ==
    /\ (lastOp.op = "getitem" /\ C21_Ext(lastOp.arg.key) = sAB) =>
          \E r \in {fetch_field(C27_HyphenForm(lastOp.arg.key), rec.item_data,
                                 get_app_config)} :
              /\ lastOp.res = r.res
              /\ lastOp.arg.val.k = r.val.k
              /\ lastOp.arg.val.s = r.val.s
    /\ (lastOp.op = "setitem" /\ C21_Ext(lastOp.arg.key) = sAB) =>
          \A i \in C21_InItem(lastOp.arg.key) :
              rec.item_data.fields[i].type = "text" =>
                  /\ lastOp.res = "ok"
                  /\ rec.item_data.fields[i].values =
                        TextMediator_update(rec.item_data.fields[i], lastOp.arg.value)

RetryBudget == 5

\* outcomes of one underlying request: a ConnectionError, or a response with
\* a status code; reset tells whether the response carries a well-formed
\* X-Retry-Reset header
ConnectionError == [conn |-> TRUE, status |-> 0, reset |-> FALSE]
Response(status, reset) == [conn |-> FALSE, status |-> status, reset |-> reset]
NoResponse == Response(0, FALSE)

SessionStatuses == {200, 404, 429, 502}

Outcomes == {ConnectionError} \cup {Response(s, TRUE) : s \in SessionStatuses}
            \cup {Response(429, FALSE)}

Methods == {"GET", "POST"}

\* a loop that retries client errors as it retries gateway errors
request_step_retry4xx(retry_counter, outcome) ==
    IF outcome.conn
    THEN IF retry_counter - 1 < 1
         THEN [res |-> "ConnectionError", retry_counter |-> retry_counter - 1,
               response |-> NoResponse]
         ELSE [res |-> "running", retry_counter |-> retry_counter - 1,
               response |-> NoResponse]
    ELSE IF retry_counter < 1 \/ outcome.status < 400
    THEN [res |-> "returned", retry_counter |-> retry_counter, response |-> outcome]
    ELSE IF outcome.status = 429 /\ ~outcome.reset
    THEN [res |-> "KeyError", retry_counter |-> retry_counter - 1,
          response |-> NoResponse]
    ELSE [res |-> "running", retry_counter |-> retry_counter - 1,
          response |-> NoResponse]

\* a loop in which a gateway error does not use up a retry
request_step_free5xx(retry_counter, outcome) ==
    IF outcome.conn
    THEN IF retry_counter - 1 < 1
         THEN [res |-> "ConnectionError", retry_counter |-> retry_counter - 1,
               response |-> NoResponse]
         ELSE [res |-> "running", retry_counter |-> retry_counter - 1,
               response |-> NoResponse]
    ELSE IF retry_counter < 1 \/ outcome.status < 400
    THEN [res |-> "returned", retry_counter |-> retry_counter, response |-> outcome]
    ELSE IF outcome.status = 429
    THEN IF outcome.reset
         THEN [res |-> "running", retry_counter |-> retry_counter - 1,
               response |-> NoResponse]
         ELSE [res |-> "KeyError", retry_counter |-> retry_counter - 1,
               response |-> NoResponse]
    ELSE IF outcome.status < 500
    THEN [res |-> "returned", retry_counter |-> retry_counter, response |-> outcome]
    ELSE [res |-> "running", retry_counter |-> retry_counter,
          response |-> NoResponse]

\* a loop that raises for the response that arrives when the retries are
\* used up
request_step_raise(retry_counter, outcome) ==
    IF outcome.conn
    THEN IF retry_counter - 1 < 1
         THEN [res |-> "ConnectionError", retry_counter |-> retry_counter - 1,
               response |-> NoResponse]
         ELSE [res |-> "running", retry_counter |-> retry_counter - 1,
               response |-> NoResponse]
    ELSE IF outcome.status < 400
    THEN [res |-> "returned", retry_counter |-> retry_counter, response |-> outcome]
    ELSE IF retry_counter < 1
    THEN [res |-> "HTTPError", retry_counter |-> retry_counter,
          response |-> NoResponse]
    ELSE IF outcome.status = 429
    THEN IF outcome.reset
         THEN [res |-> "running", retry_counter |-> retry_counter - 1,
               response |-> NoResponse]
         ELSE [res |-> "KeyError", retry_counter |-> retry_counter - 1,
               response |-> NoResponse]
    ELSE IF outcome.status < 500
    THEN [res |-> "returned", retry_counter |-> retry_counter, response |-> outcome]
    ELSE [res |-> "running", retry_counter |-> retry_counter - 1,
          response |-> NoResponse]

\* one pass through the loop of the robust request: what happens to
\* retry_counter and whether the call returns, raises or goes round again
request_step(retry_counter, outcome) ==
    IF outcome.conn
    THEN IF retry_counter - 1 < 1
         THEN [res |-> "ConnectionError", retry_counter |-> retry_counter - 1,
               response |-> NoResponse]
         ELSE [res |-> "running", retry_counter |-> retry_counter - 1,
               response |-> NoResponse]
    ELSE IF retry_counter < 1
    THEN [res |-> "returned", retry_counter |-> retry_counter, response |-> outcome]
    ELSE IF outcome.status < 400
    THEN [res |-> "returned", retry_counter |-> retry_counter, response |-> outcome]
    ELSE IF outcome.status = 429
    THEN IF outcome.reset
         THEN [res |-> "running", retry_counter |-> retry_counter - 1,
               response |-> NoResponse]
         ELSE [res |-> "KeyError", retry_counter |-> retry_counter - 1,
               response |-> NoResponse]
    ELSE IF 400 <= outcome.status /\ outcome.status < 500
    THEN [res |-> "returned", retry_counter |-> retry_counter, response |-> outcome]
    ELSE IF 500 <= outcome.status /\ outcome.status < 600
    THEN [res |-> "running", retry_counter |-> retry_counter - 1,
          response |-> NoResponse]
    ELSE [res |-> "running", retry_counter |-> retry_counter,
          response |-> NoResponse]

\* the non-robust request hands the outcome of the one underlying request on
request_plain(retry_counter, outcome) ==
    IF outcome.conn
    THEN [res |-> "ConnectionError", retry_counter |-> retry_counter,
          response |-> NoResponse]
    ELSE [res |-> "returned", retry_counter |-> retry_counter, response |-> outcome]

\* TapeSession.request is called
request_call(method, robust) ==
    /\ lastOp.res /= "running"
    /\ lastOp' = Op("request", "running", <<>>,
                    [method |-> method, robust |-> robust,
                     retry_counter |-> RetryBudget, response |-> NoResponse,
                     outcomes |-> <<>>])
    /\ UNCHANGED <<rec, assigned, app_configs, cache_configs, cached_apps,
                   podio_app, inserted>>
    /\ UNCHANGED searchable

\* the call in progress sends one underlying request and handles its outcome
request_attempt(outcome) ==
    /\ lastOp.op = "request" /\ lastOp.res = "running"
    /\ \E r \in {IF lastOp.arg.robust
                  THEN request_step(lastOp.arg.retry_counter, outcome)
                  ELSE request_plain(lastOp.arg.retry_counter, outcome)} :
           lastOp' = Op("request", r.res, Append(lastOp.reqs, lastOp.arg.method),
                        [lastOp.arg EXCEPT !.retry_counter = r.retry_counter,
                                           !.response = r.response,
                                           !.outcomes = Append(@, outcome)])
    /\ UNCHANGED <<rec, assigned, app_configs, cache_configs, cached_apps,
                   podio_app, inserted>>
    /\ UNCHANGED searchable

NextSession ==
    \/ \E m \in Methods, b \in BOOLEAN : request_call(m, b)
    \/ \E o \in Outcomes : request_attempt(o)

SpecSession == Init /\ [][NextSession]_vars

\* a response with a client-error status other than 429
C29_ClientError(o) == ~o.conn /\ 400 <= o.status /\ o.status < 500 /\ o.status /= 429

\* C29: with robustness enabled, a 4xx response other than 429 is returned
\* to the caller as it was received, at whatever attempt it arrives, and the
\* call sends no further request after it.
C29_ClientErrorReturned ==
    [][/\ (/\ lastOp'.op = "request" /\ lastOp'.arg.robust
           /\ lastOp'.arg.outcomes /= <<>>
           /\ C29_ClientError(lastOp'.arg.outcomes[Len(lastOp'.arg.outcomes)]))
          => /\ lastOp'.res = "returned"
             /\ lastOp'.arg.response =
                   lastOp'.arg.outcomes[Len(lastOp'.arg.outcomes)]
       /\ (/\ lastOp.op = "request" /\ lastOp.arg.robust
           /\ lastOp.arg.outcomes /= <<>>
           /\ C29_ClientError(lastOp.arg.outcomes[Len(lastOp.arg.outcomes)]))
          => lastOp'.reqs = <<>>]_vars

\* a 404 arrived at the third attempt, after a gateway error and a
\* connection error, and was returned
C29_Witness ==
    /\ lastOp.op = "request" /\ lastOp.arg.robust
    /\ lastOp.arg.outcomes = <<Response(502, TRUE), ConnectionError,
                               Response(404, TRUE)>>
    /\ lastOp.res = "returned" /\ lastOp.arg.response = Response(404, TRUE)
    /\ Len(lastOp.reqs) = 3

\* C30: with robustness enabled, whatever the outcomes are (connection
\* errors, 429 and 5xx responses in any mix), the call sends at most 6
\* underlying requests, the first one and 5 retries, and has returned or
\* raised after the sixth.
C30_BoundedRetries ==
    (lastOp.op = "request" /\ lastOp.arg.robust) =>
        /\ Len(lastOp.reqs) <= 6
        /\ Len(lastOp.reqs) = Len(lastOp.arg.outcomes)
        /\ Len(lastOp.reqs) = 6 => lastOp.res \in {"returned", "ConnectionError",
                                                   "KeyError"}

\* after connection errors, 429 and 502 responses the sixth request was
\* answered with a 502, which was returned
C30_Witness ==
    /\ lastOp.op = "request" /\ lastOp.arg.robust
    /\ Len(lastOp.reqs) = 6
    /\ lastOp.arg.outcomes[1] = ConnectionError
    /\ lastOp.arg.outcomes[2] = Response(429, TRUE)
    /\ lastOp.arg.outcomes[6] = Response(502, TRUE)
    /\ lastOp.res = "returned"

(***************************************************************************)
(* Records over a document that carries a field of every registered type:  *)
(* the document is constructed with its values missing, empty or present,  *)
(* read under every descriptor the mediators interpret, and its number and *)
(* category fields are assigned to.                                        *)
(***************************************************************************)
sEntered == <<"E", "n", "t", "e", "r", "e", "d">>
sAccepted == <<"A", "c", "c", "e", "p", "t", "e", "d">>
sRejected == <<"R", "e", "j", "e", "c", "t", "e", "d">>
sStart == <<"2", "0", "1", "8", "-", "1", "0", "-", "1", "5", " ", "0", "0", ":", "0", "0", ":", "0", "0">>
sEnd == <<"2", "0", "1", "8", "-", "1", "0", "-", "1", "6", " ", "1", "2", ":", "3", "0", ":", "5", "9">>
sUrl == <<"u">>
sMailW == <<"w", "@", "x">>
sMailH == <<"h", "@", "x">>

\* external ids of the fields, one per kind of field
e_ap == <<"a", "p">>
e_cl == <<"c", "l">>
e_cx == <<"c", "x">>
e_ca == <<"c", "a">>
e_co == <<"c", "o">>
e_da == <<"d", "a">>
e_em == <<"e", "m">>
e_eb == <<"e", "b">>
e_nu == <<"n", "u">>
e_tx == <<"t", "x">>
e_im == <<"i", "m">>

\* number strings assigned to the number field
d_1_5 == <<"1", ".", "5">>
d_1_5000 == <<"1", ".", "5", "0", "0", "0">>
d_neg0 == <<"-", "0">>
d_p5 == <<".", "5">>
d_007 == <<" ", "+", "0", "0", "7", ".">>
d_neg == <<"-", "3", ".", "2", "5">>
d_1234 == <<"0", ".", "1", "2", "3", "4">>
d_12345 == <<"0", ".", "1", "2", "3", "4", "5">>
d_x == <<"x">>

\* options of a category field whose texts differ
Options == << Option(1, sEntered, "active"), Option(2, sAccepted, "active"),
              Option(3, sRejected, "deleted") >>

\* options of a category field two of which share a text
OptionsShared == << Option(1, sEntered, "active"), Option(2, sAccepted, "active"),
                    Option(3, sRejected, "deleted"),
                    Option(4, sAccepted, "active") >>

\* the values of the fields of a document with n values per field
ValuesFor(vals, n) == SubSeq(vals, 1, n)

\* a document with a field of every registered type; has_values tells
\* whether the fields carry the 'values' key, n how many values each holds,
\* options the options of its category field
MediatorDoc(has_values, n, options) ==
    LET F(ext, type, vals) ==
            [external_id |-> ext, type |-> type, has_values |-> has_values,
             values |-> IF has_values THEN ValuesFor(vals, n) ELSE <<>>]
    IN  [item_id |-> 1, app |-> AppId,
         fields |-> <<
            F(e_ap, "app", << AppValue(1), AppValue(2) >>),
            F(e_cl, "calculation", << TextValue(sX), TextValue(sY) >>),
            DateCalculationField(e_cx, has_values,
                IF has_values
                THEN ValuesFor(<< [start |-> sStart], [start |-> sEnd] >>, n)
                ELSE <<>>),
            CategoryField(e_ca, has_values,
                IF has_values
                THEN ValuesFor(<< OptionValue(options[2]),
                                  OptionValue(options[1]) >>, n)
                ELSE <<>>, options),
            F(e_co, "contact", << ContactValue(1), ContactValue(2) >>),
            F(e_da, "date", << DateValue(sStart, sEnd), DateValue(sEnd, sEnd) >>),
            F(e_em, "email", << EmailValue(m_work, sMailW),
                                EmailValue(m_home, sMailH) >>),
            F(e_eb, "embed", << EmbedValue(sUrl), EmbedValue(sX) >>),
            F(e_nu, "number", << TextValue(d_1_5000), TextValue(d_1234) >>),
            F(e_tx, "text", << TextValue(sX), TextValue(sY) >>),
            F(e_im, "image", << ImageValue(1), ImageValue(2) >>) >>]

MediatorDocs == {MediatorDoc(FALSE, 0, Options), MediatorDoc(TRUE, 0, Options),
                 MediatorDoc(TRUE, 2, Options),
                 MediatorDoc(TRUE, 2, OptionsShared)}

\* the modifiers the fetch of a field type interprets
ModifiersOf(type) ==
    CASE type = "app" -> {m_values, m_first, m_last}
      [] type = "calculation" -> {m_datetime}
      [] type = "category" -> {m_choices, m_choices_dict, m_active, m_all,
                               m_labels}
      [] type = "contact" -> {m_all}
      [] type = "date" -> {m_start, m_end, m_datetime, m_start_datetime,
                           m_startdatetime, m_start_dt, m_startdt,
                           m_end_datetime, m_enddatetime, m_end_dt, m_enddt}
      [] type = "email" -> {m_all, m_work, m_home, m_other}
      [] type = "embed" -> {m_all}
      [] type = "number" -> {m_int, m_float}
      [] type \in {"text", "image"} -> {}

\* the descriptor ext__modifier
Dunder(ext, modifier) == ext \o <<"_", "_">> \o modifier

\* the descriptors read: every field without modifier, with each of the
\* modifiers of its type and with a modifier no mediator knows
MediatorDescriptors ==
    LET fields == MediatorDoc(TRUE, 0, Options).fields
    IN  UNION {{fields[i].external_id, Dunder(fields[i].external_id, sZ)}
               \cup {Dunder(fields[i].external_id, m) :
                        m \in ModifiersOf(fields[i].type)} :
               i \in 1..Len(fields)}

\* values assigned to the number field
NumberValues ==
    {PyStr(s) : s \in {d_1_5, d_1_5000, d_neg0, d_p5, d_007, d_neg, d_1234,
                       d_12345, d_x}}
    \cup {PyNone, PyInt(3)}

\* values assigned to the category fields
CategoryValues ==
    {PyStr(sEntered), PyStr(sAccepted), PyStr(sRejected), PyStr(sX),
     PyInt(2), PyNone}

NextMediator ==
    \/ \E d \in MediatorDocs : NewRecord(d, FALSE)
    \/ \E k \in MediatorDescriptors : getitem(k, 200)
    \/ \E v \in NumberValues : setitem(e_nu, v, 200)
    \/ \E v \in CategoryValues : setitem(e_ca, v, 200)

SpecMediator == Init /\ [][NextMediator]_vars

(***************************************************************************)
(* Properties of the mediators.                                            *)
(***************************************************************************)
\* the modifiers the mediator table lists for a field type
C24_Listed(type) ==
    CASE type = "number" -> {m_int, m_float}
      [] type = "date" -> {m_start, m_end, m_datetime, m_start_datetime,
                           m_end_datetime}
      [] type = "category" -> {m_choices, m_choices_dict, m_active, m_all,
                               m_labels}
      [] type = "app" -> {m_values, m_first, m_last}
      [] type = "contact" -> {m_all}
      [] type = "email" -> {m_all, m_work, m_home, m_other}
      [] type = "embed" -> {m_all}
      [] type = "calculation" -> {m_datetime}
      [] type \in {"text", "image"} -> {}

\* the field of the record in hand that a descriptor names
C24_Field(key) ==
    rec.item_data.fields[CHOOSE i \in C21_InItem(key) :
                            \A j \in C21_InItem(key) : i <= j]

\* a read of a field of a registered type that holds no value, without
\* modifier or with a modifier listed for the type
C24_EmptyRead ==
    /\ lastOp.op = "getitem"
    /\ C21_InItem(lastOp.arg.key) /= {}
    /\ LET f == C24_Field(lastOp.arg.key)
           parts == split_descriptor_parts(lastOp.arg.key)
       IN  /\ f.type \in MEDIATORS
           /\ ~f.has_values \/ Len(f.values) = 0
           /\ parts.has_param => parts.field_param \in C24_Listed(f.type)

\* C24: for every registered field type and every modifier listed for it,
\* get on a field whose values are empty or missing does not raise and
\* returns None, or an empty collection; the modifiers choices and
\* choices_dict list the declared options of the field, which are not its
\* values.
C24_EmptyFetchIsNone ==
    C24_EmptyRead =>
        /\ lastOp.res = "ok"
        /\ \/ lastOp.arg.val = PyNone
           \/ lastOp.arg.val = PyEmptyList
           \/ split_descriptor_parts(lastOp.arg.key).field_param
                 \in {m_choices, m_choices_dict}

\* the number string without surrounding blanks and without its sign
C25_Unsigned(s) ==
    LET b == Strip(s)
    IN  IF Len(b) > 0 /\ b[1] \in {"+", "-"} THEN Tail(b) ELSE b

\* the digits before and after the point of a number string
C25_Parts(s) ==
    LET u == C25_Unsigned(s)
        parts == SplitOn(".", u)
    IN  [whole |-> parts[1],
         fraction |-> IF Len(parts) > 1 THEN parts[2] ELSE <<>>,
         points |-> Len(parts) - 1]

\* a decimal string with at most 4 fractional digits
C25_IsDecimal4(s) ==
    LET p == C25_Parts(s)
    IN  /\ p.points <= 1
        /\ \A i \in 1..Len(p.whole) : p.whole[i] \in {DigitChars[n] : n \in 1..10}
        /\ \A i \in 1..Len(p.fraction) :
              p.fraction[i] \in {DigitChars[n] : n \in 1..10}
        /\ Len(p.whole) + Len(p.fraction) > 0
        /\ Len(p.fraction) <= 4

RECURSIVE C25_NoLeadingZeros(_)
\* the digits without leading zeros, "0" when nothing else is left
C25_NoLeadingZeros(digits) ==
    IF Len(digits) = 0 THEN <<"0">>
    ELSE IF digits[1] = "0" /\ Len(digits) > 1
    THEN C25_NoLeadingZeros(Tail(digits))
    ELSE digits

\* the number string written with exactly 4 fractional digits: its sign if
\* negative, its whole part, the point, its fraction filled up with zeros
C25_Format4(s) ==
    LET p == C25_Parts(s)
        b == Strip(s)
    IN  (IF b[1] = "-" THEN <<"-">> ELSE <<>>)
        \o C25_NoLeadingZeros(p.whole) \o <<".">> \o p.fraction
        \o [i \in 1..(4 - Len(p.fraction)) |-> "0"]

\* C25: for every decimal string s with at most 4 fractional digits, after
\* the number field was assigned s, a read without modifier yields s
\* written with exactly 4 fractional digits; assigning the string that was
\* read and reading again yields the same string.  A read of the number
\* field yields the stored string written with 4 fractional digits.
C25_NumberRoundTrip ==
    /\ (/\ lastOp.op = "setitem" /\ lastOp.arg.key = e_nu
        /\ lastOp.arg.value.k = "str" /\ C25_IsDecimal4(lastOp.arg.value.s))
          => /\ lastOp.res = "ok"
             /\ LET expected == C25_Format4(lastOp.arg.value.s)
                    first == fetch_field(e_nu, rec.item_data, get_app_config)
                    again == update_field(e_nu, first.val, rec.item_data,
                                          get_app_config)
                    second == fetch_field(e_nu, again.item_json, get_app_config)
                IN  /\ first.res = "ok" /\ first.val = PyStr(expected)
                    /\ again.res = "ok"
                    /\ second.res = "ok" /\ second.val = PyStr(expected)
    /\ (/\ lastOp.op = "getitem" /\ lastOp.arg.key = e_nu
        /\ Len(ValuesOf(C24_Field(e_nu))) > 0)
          => /\ lastOp.res = "ok"
             /\ lastOp.arg.val
                   = PyStr(C25_Format4(C24_Field(e_nu).values[1].value))

\* the number field was assigned a number string and then read: '.5' was
\* written and reads as '0.5000'
C25_Witness ==
    /\ lastOp.op = "getitem" /\ lastOp.arg.key = e_nu /\ lastOp.res = "ok"
    /\ e_nu \in rec.tainted
    /\ lastOp.arg.val = PyStr(<<"0", ".", "5", "0", "0", "0">>)

\* the declared options of the category field that a str or an int names:
\* by its display text or by its id
C26_Named(f, v) ==
    {i \in 1..Len(f.options) :
        \/ v.k = "str" /\ f.options[i].text = v.s
        \/ v.k = "int" /\ f.options[i].id = v.i}

\* the declared options that are active, in declaration order
C26_Active(f) ==
    LET idx == {i \in 1..Len(f.options) : f.options[i].status = "active"}
        Nth(n) == CHOOSE i \in idx : Cardinality({j \in idx : j < i}) = n - 1
    IN  [n \in 1..Cardinality(idx) |-> f.options[Nth(n)]]

C37_Ids ==
    [i \in 1..Len(ValuesOf(C24_Field(e_ap))) |->
        ValuesOf(C24_Field(e_ap))[i].item.item_id]

\* C37: for an app field whose list of related item ids is not empty, get
\* with modifier first returns the first id of the list, get with modifier
\* last the last id of the list, and get with modifier values the relation
\* value objects in the order of the list.
C37_FirstLastValues ==
    (lastOp.op = "getitem" /\ Len(C37_Ids) > 0) =>
        /\ lastOp.arg.key = Dunder(e_ap, m_first)
              => lastOp.res = "ok" /\ lastOp.arg.val = PyInt(C37_Ids[1])
        /\ lastOp.arg.key = Dunder(e_ap, m_last)
              => lastOp.res = "ok"
                 /\ lastOp.arg.val = PyInt(C37_Ids[Len(C37_Ids)])
        /\ lastOp.arg.key = Dunder(e_ap, m_values)
              => lastOp.res = "ok"
                 /\ lastOp.arg.val
                       = PyItems([i \in 1..Len(C37_Ids) |->
                                    [item_id |-> C37_Ids[i]]])

(***************************************************************************)
(* Properties of the retry loop: its ends.                                 *)
(***************************************************************************)
\* the outcomes of a sequence that use up a retry: connection errors, 429
\* and 5xx responses
C35_Used(outcomes) ==
    Cardinality({i \in 1..Len(outcomes) :
                    \/ outcomes[i].conn
                    \/ outcomes[i].status = 429
                    \/ outcomes[i].status >= 500})

\* the last outcome of the call and the outcomes before it
C35_Last(op) == op.arg.outcomes[Len(op.arg.outcomes)]
C35_Earlier(op) == SubSeq(op.arg.outcomes, 1, Len(op.arg.outcomes) - 1)

\* C35: with robustness enabled, a response with a status below 400 is
\* returned as it is; a response that arrives after 5 earlier outcomes used
\* up the retries (connection errors, 429 or 5xx responses) is returned
\* whatever its status, nothing is raised for it; the connection error that
\* uses up the last retry is raised; and a call that has returned or raised
\* sends no further request.
C35_EndsOfTheLoop ==
    [][/\ (/\ lastOp'.op = "request" /\ lastOp'.arg.robust
           /\ lastOp'.arg.outcomes /= <<>>)
          => /\ (~C35_Last(lastOp').conn /\ C35_Last(lastOp').status < 400)
                   => /\ lastOp'.res = "returned"
                      /\ lastOp'.arg.response = C35_Last(lastOp')
             /\ (~C35_Last(lastOp').conn
                 /\ C35_Used(C35_Earlier(lastOp')) >= RetryBudget)
                   => /\ lastOp'.res = "returned"
                      /\ lastOp'.arg.response = C35_Last(lastOp')
             /\ (C35_Last(lastOp').conn
                 /\ C35_Used(lastOp'.arg.outcomes) >= RetryBudget)
                   => lastOp'.res = "ConnectionError"
       /\ (/\ lastOp.op = "request" /\ lastOp.arg.robust
           /\ lastOp.res /= "running")
          => lastOp'.reqs = <<>>]_vars

\* five gateway errors used up the retries and the 429 that answered the
\* sixth request was returned
C35_Witness ==
    /\ lastOp.op = "request" /\ lastOp.arg.robust
    /\ lastOp.arg.outcomes = <<Response(502, TRUE), Response(502, TRUE),
                               Response(502, TRUE), Response(502, TRUE),
                               Response(502, TRUE), Response(429, FALSE)>>
    /\ lastOp.res = "returned" /\ lastOp.arg.response = Response(429, FALSE)

\* C36: a POST request is sent to the server at most once per call of
\* request; only idempotent requests are sent again after a connection
\* error or a 5xx response.
C36_PostSentOnce ==
    (lastOp.op = "request" /\ lastOp.arg.method = "POST")
        => Len(lastOp.reqs) <= 1

(***************************************************************************)
(* Frame of assignments and reads.                                         *)
(***************************************************************************)
\* C34: an assignment record[d] = v sends no remote request, writes nothing
\* to the cache, and leaves item_id, the app and every field other than the
\* one named by d as they were; a read record[d] changes neither the
\* document nor the tainted set.
C34_AssignmentIsLocal ==
    [][/\ lastOp'.op = "setitem"
          => /\ lastOp'.reqs = <<>>
             /\ UNCHANGED <<cached_apps, podio_app, cache_configs, inserted>>
             /\ rec'.item_data.item_id = rec.item_data.item_id
             /\ rec'.item_data.app = rec.item_data.app
             /\ Len(rec'.item_data.fields) >= Len(rec.item_data.fields)
             /\ \A i \in 1..Len(rec'.item_data.fields) :
                   \/ rec'.item_data.fields[i].external_id
                         = C21_Ext(lastOp'.arg.key)
                   \/ /\ i <= Len(rec.item_data.fields)
                      /\ rec'.item_data.fields[i] = rec.item_data.fields[i]
       /\ lastOp'.op = "getitem" => rec' = rec]_vars

(***************************************************************************)
(* What a save sends.                                                      *)
(***************************************************************************)
\* the descriptor names a field of the document that is not a calculation
C33_Sendable(key) ==
    \E i \in 1..Len(rec.item_data.fields) :
        /\ rec.item_data.fields[i].external_id = C21_Ext(key)
        /\ rec.item_data.fields[i].type /= "calculation"

\* C33: the payload a save sends holds every field assigned to since the
\* last successful save (calculation fields apart), whatever form of
\* descriptor the assignment used.
C33_SaveSendsEveryChange ==
    (lastOp.op = "save" /\ lastOp.reqs /= <<>>)
        => \A key \in assigned :
              C33_Sendable(key) => C21_Ext(key) \in DOMAIN lastOp.arg.podio_dict

(***************************************************************************)
(* Created items and their cache rows.                                     *)
(***************************************************************************)
\* the cache table holds a row of the item
C38_Cached(table, item_id) == \E r \in table.rows : r.item_id = item_id

\* C38: create_item on a store whose cache configuration is not loaded
\* fails before the create request is sent; a create request that succeeded
\* has its row written; and the item created by one create_item call still
\* has its row after the next create_item call.
C38_CreatedItemsAreCached ==
    [][lastOp'.op = "create_item" =>
          /\ ~cache_configs.has =>
                /\ lastOp'.reqs = <<>>
                /\ lastOp'.res = "KeyError"
          /\ (lastOp'.reqs /= <<>> /\ ~FailedStatus(lastOp'.arg.status))
                => C38_Cached(podio_app', lastOp'.arg.item_id)
          /\ (lastOp.op = "create_item" /\ lastOp.res = "ok")
                => C38_Cached(podio_app', lastOp.arg.item_id)]_vars

(***************************************************************************)
(* Projection of extra fields and lookups by them: items with a text field *)
(* and a category field are cached with extra columns and looked up by     *)
(* the values of these columns.                                            *)
(***************************************************************************)
\* the descriptor of the dict of choices of the category field
sCaDict == Dunder(e_ca, m_choices_dict)

\* options one of which has the text 'item_id'
OptionsItemId == << Option(1, sItem_id, "active"), Option(2, sAccepted, "active") >>

\* a document with a text field and a category field
ProjectDoc(id, n, options) ==
    [item_id |-> id, app |-> AppId,
     fields |-> << MkField(sN, "text", << TextValue(n) >>),
                   CategoryField(e_ca, TRUE, << OptionValue(options[1]) >>,
                                 options) >>]

ProjectDocs ==
    {ProjectDoc(id, sX, OptionsItemId) : id \in ItemIds}
    \cup {ProjectDoc(id, sY, Options) : id \in ItemIds}

\* collections of these documents, each item once, in the order of the ids
ProjectCollections ==
    {c \in UNION {[1..n -> ProjectDocs] : n \in 0..MaxItems} :
        \A i, j \in 1..Len(c) : i < j => c[i].item_id < c[j].item_id}

\* extra_fields and natural_key arguments
ProjectExtras == {<<sN>>, <<sN, sCaDict>>}
ProjectKeys == {NoNaturalKey, KeyList(<<sCaDict>>)}

\* repr of the entries of a dict of choices
RECURSIVE ReprEntries(_)
ReprEntries(dd) ==
    IF Len(dd) = 0 THEN <<>>
    ELSE <<"'">> \o dd[1].text \o <<"'", ":", " ">> \o NatToDigits(dd[1].id)
         \o (IF Len(dd) = 1 THEN <<>> ELSE <<",", " ">> \o ReprEntries(Tail(dd)))

\* str(value)
StrOf(v) ==
    IF v.k = "dict" THEN <<"{">> \o ReprEntries(v.dd) \o <<"}">>
    ELSE PercentS(v)

\* select_for arguments over the extra columns
ProjectSelectFors ==
    {<<Clause(sN, sX)>>, <<Clause(sN, sY)>>,
     <<Clause(sCaDict, <<"[", "1", "]">>)>>,
     <<Clause(sCaDict, StrOf(PyDict(ChoicesDict(OptionsItemId))))>>,
     <<Clause(sN, sX), Clause(sCaDict, <<"[", "1", "]">>)>>,
     <<Clause(sN, sY), Clause(sCaDict, StrOf(PyDict(ChoicesDict(Options))))>>}

NextProject ==
    \/ \E e \in ProjectExtras, n \in ProjectKeys, c \in ProjectCollections :
          cache_app(e, n, TRUE, c)
    \/ \E s \in ProjectSelectFors : get_item_by_join_ids(s, TRUE)

SpecProject == Init /\ [][NextProject]_vars

\* every value stored in an extra column is the string form of the value
\* of the row's item for the field the column is named after
C32_Stored(table) ==
    \A r \in table.rows : \A f \in table.extra_cols :
        ~r.extra[f].null
        => r.extra[f].s = StrOf(ItemGet(json_loads(r.item_data), f).val)

\* the rows whose columns hold the values of select_for
C32_Matching(select_for) ==
    {r \in podio_app.rows :
        \A i \in 1..Len(select_for) :
            r.extra[select_for[i].key] = SqlText(select_for[i].val.s)}

\* a lookup by columns of the table returns the one row that matches all
\* of them
C32_Join(select_for) ==
    (/\ get_item_by_join_ids(select_for, TRUE)
     /\ \A i \in 1..Len(select_for) : select_for[i].key \in podio_app.extra_cols)
    => /\ Cardinality(C32_Matching(select_for)) = 1
          => /\ lastOp'.res = "ok"
             /\ \E r \in C32_Matching(select_for) :
                   lastOp'.arg.item = CachedItem(json_loads(r.item_data))
       /\ lastOp'.res = "ok" => Cardinality(C32_Matching(select_for)) = 1

\* C32: the value stored in the column of an extra field f is the string
\* form of the item's own value for f, whatever natural key is configured,
\* and get_item_by_join_ids returns the item whose columns hold the given
\* values when no other row holds them; several columns must all match.
C32_ProjectionAndJoin ==
    [][/\ C32_Stored(podio_app')
       /\ \A s \in ProjectSelectFors : C32_Join(s)]_vars

(***************************************************************************)
(* iterate_resource (helpers.py): the pages of a remote collection are     *)
(* requested one after the other; lastOp holds the call in progress, with  *)
(* res = "running" until it returns or raises.                             *)
(***************************************************************************)
\* the largest collection and the largest page size
MaxTotal == 4
MaxLimit == 3

\* A remote collection: its items in remote order and the counts its
\* responses declare; has_filtered tells whether they carry 'filtered'.
Remote(n, has_filtered, total) ==
    [items |-> [i \in 1..n |-> i], has_filtered |-> has_filtered,
     filtered |-> n, total |-> total]

\* an unfiltered collection declares its size as total; a filtered one
\* declares the size of the app as total and its own size as filtered
Remotes ==
    {Remote(n, FALSE, n) : n \in 0..MaxTotal}
    \cup {Remote(n, TRUE, n + 1) : n \in 0..MaxTotal}

\* resp['items'] of the request with this limit and offset
Page(items, limit, offset) ==
    IF offset >= Len(items) THEN <<>>
    ELSE SubSeq(items, offset + 1,
                IF offset + limit < Len(items) THEN offset + limit
                ELSE Len(items))

\* total = resp['total'], replaced by resp['filtered'] where present
Declared(remote) ==
    IF remote.has_filtered THEN remote.filtered ELSE remote.total

\* int(math.ceil(total / limit))
NumSteps(total, limit) == (total + limit - 1) \div limit

\* steps that keep the offset of the first page
StepsLeft_all(total, limit) ==
    IF total > limit
    THEN [i \in 1..NumSteps(total, limit) |-> (i - 1) * limit]
    ELSE <<>>

\* steps_left: list(range(0, num_steps * limit, limit))[1:] when
\* total > limit, and [] otherwise
StepsLeft(total, limit) ==
    IF total > limit
    THEN [i \in 1..(NumSteps(total, limit) - 1) |-> i * limit]
    ELSE <<>>

\* the request of one page
PageRequest(method, limit, offset) ==
    [method |-> method, limit |-> limit, offset |-> offset]

\* iterate_resource(client, url, http_method, limit, offset) up to its
\* first request
iterate_resource(http_method, remote, limit, offset) ==
    /\ lastOp.res /= "running"
    /\ \E arg \in {[http_method |-> http_method, remote |-> remote,
                    limit |-> limit, offset |-> offset, all_items |-> <<>>,
                    steps_left |-> <<offset>>, first |-> TRUE,
                    statuses |-> <<>>]} :
          lastOp' = IF http_method \notin {"POST", "GET"}
                    THEN Op("iterate_resource", "Exception", <<>>, arg)
                    ELSE Op("iterate_resource", "running", <<>>, arg)
    /\ UNCHANGED <<rec, assigned, app_configs, cache_configs, cached_apps,
                   podio_app, inserted>>
    /\ UNCHANGED searchable

\* one request of iterate_resource and the handling of its response: the
\* first one, or one turn of the loop over steps_left
iterate_resource_page(status_code) ==
    /\ lastOp.op = "iterate_resource"
    /\ lastOp.res = "running"
    /\ \E a \in {lastOp.arg} :
       \E reqs \in {lastOp.reqs \o <<PageRequest(a.http_method, a.limit,
                                                  Head(a.steps_left))>>} :
       \E steps \in {IF a.first THEN StepsLeft(Declared(a.remote), a.limit)
                     ELSE Tail(a.steps_left)} :
          lastOp' =
            IF status_code /= 200
            THEN Op("iterate_resource", "Exception", reqs,
                    [a EXCEPT !.statuses = @ \o <<status_code>>])
            ELSE Op("iterate_resource",
                    IF steps = <<>> THEN "ok" ELSE "running", reqs,
                    [a EXCEPT !.statuses = @ \o <<status_code>>,
                              !.all_items = @ \o Page(a.remote.items, a.limit,
                                                      Head(a.steps_left)),
                              !.steps_left = steps,
                              !.first = FALSE])
    /\ UNCHANGED <<rec, assigned, app_configs, cache_configs, cached_apps,
                   podio_app, inserted>>
    /\ UNCHANGED searchable

NextIterate ==
    \/ \E m \in {"POST", "GET", "PUT"}, r \in Remotes, l \in 1..MaxLimit,
          o \in {0, 1} : iterate_resource(m, r, l, o)
    \/ \E st \in {200, 500} : iterate_resource_page(st)

SpecIterate == Init /\ [][NextIterate]_vars

\* max(1, ceil(T / L))
C31_Requests(t, l) == IF t = 0 THEN 1 ELSE NumSteps(t, l)

\* C31: for a collection of T items, iterate_resource with page size L >= 1
\* and start offset 0 returns the T items in remote order, each once, with
\* max(1, ceil(T/L)) requests at the offsets 0, L, 2L, ...; when a page is
\* answered with a status other than 200 it raises.
C31_AllPages ==
    (/\ lastOp.op = "iterate_resource"
     /\ lastOp.arg.http_method \in {"POST", "GET"}
     /\ lastOp.arg.offset = 0)
    => /\ \A i \in 1..Len(lastOp.reqs) :
             lastOp.reqs[i] = PageRequest(lastOp.arg.http_method,
                                          lastOp.arg.limit,
                                          (i - 1) * lastOp.arg.limit)
       /\ Len(lastOp.reqs)
             <= C31_Requests(Len(lastOp.arg.remote.items), lastOp.arg.limit)
       /\ lastOp.res = "ok"
             => /\ lastOp.arg.all_items = lastOp.arg.remote.items
                /\ Len(lastOp.reqs)
                      = C31_Requests(Len(lastOp.arg.remote.items),
                                     lastOp.arg.limit)
       /\ (\E i \in 1..Len(lastOp.arg.statuses) : lastOp.arg.statuses[i] /= 200)
             <=> lastOp.res = "Exception"
       /\ lastOp.res = "running"
             => Len(lastOp.reqs)
                   < C31_Requests(Len(lastOp.arg.remote.items), lastOp.arg.limit)

\* a collection of four items was read in pages of three
C31_Witness ==
    /\ lastOp.op = "iterate_resource"
    /\ lastOp.res = "ok"
    /\ lastOp.arg.offset = 0
    /\ lastOp.arg.limit = 3
    /\ lastOp.arg.all_items = <<1, 2, 3, 4>>
    /\ Len(lastOp.reqs) = 2

(***************************************************************************)
(* SearchableList (helpers.py): items are appended and indexed by the      *)
(* text of each of their fields, and looked up through the index.          *)
(***************************************************************************)
\* the largest number of items appended, and of positions an index entry
\* lists
MaxAppended == 2

UpperChars == <<"A", "B", "C", "D", "E", "F", "G", "H", "I", "J", "K", "L", "M",
                "N", "O", "P", "Q", "R", "S", "T", "U", "V", "W", "X", "Y", "Z">>
LowerChars == <<"a", "b", "c", "d", "e", "f", "g", "h", "i", "j", "k", "l", "m",
                "n", "o", "p", "q", "r", "s", "t", "u", "v", "w", "x", "y", "z">>

\* str.lower()
Lower(s) ==
    [i \in 1..Len(s) |->
        IF \E n \in 1..Len(UpperChars) : UpperChars[n] = s[i]
        THEN LowerChars[CHOOSE n \in 1..Len(UpperChars) : UpperChars[n] = s[i]]
        ELSE s[i]]

\* str(value).strip().lower()
SearchableText(v) == Lower(Strip(StrOf(v)))

\* index_for_field after the position was listed under the text
ListedUnder(index_for_field, text, index) ==
    [t \in DOMAIN index_for_field \cup {text} |->
        IF t /= text THEN index_for_field[t]
        ELSE IF t \in DOMAIN index_for_field
        THEN index_for_field[t] \o <<index>>
        ELSE <<index>>]

\* search_index after one turn of the loop of make_searchable
Indexed(search_index, external_id, text, index) ==
    [f \in DOMAIN search_index \cup {external_id} |->
        IF f /= external_id THEN search_index[f]
        ELSE IF f \in DOMAIN search_index
        THEN ListedUnder(search_index[f], text, index)
        ELSE ListedUnder(<<>>, text, index)]

\* SearchableList.make_searchable from the k-th field of the item on: the
\* index after the loop, or the index as it stands when item[external_id]
\* raises
RECURSIVE make_searchable(_, _, _, _)
make_searchable(search_index, index, item_data, k) ==
    IF k > Len(item_data.fields) THEN [res |-> "ok", search_index |-> search_index]
    ELSE IF ItemGet(item_data, item_data.fields[k].external_id).res /= "ok"
    THEN [res |-> ItemGet(item_data, item_data.fields[k].external_id).res,
          search_index |-> search_index]
    ELSE make_searchable(
            Indexed(search_index, item_data.fields[k].external_id,
                    SearchableText(ItemGet(item_data,
                                           item_data.fields[k].external_id).val),
                    index),
            index, item_data, k + 1)

\* the positions of a list of indexes that the list does not have
OutOfRange(indexes, data) ==
    \E n \in 1..Len(indexes) : indexes[n] >= Len(data)

\* sorted(index_list)
Sorted(index_list) == SortSeq(index_list, LAMBDA a, b : a < b)

\* SearchableList.search: the positions of the items it returns
search_result(list, external_id, look_for) ==
    IF Len(list.data) = 0 THEN [res |-> "ok", found |-> <<>>]
    ELSE IF external_id \notin DOMAIN list.search_index
    THEN [res |-> "ok", found |-> <<>>]
    ELSE IF SearchableText(look_for) \notin DOMAIN list.search_index[external_id]
    THEN [res |-> "ok", found |-> <<>>]
    ELSE IF OutOfRange(list.search_index[external_id][SearchableText(look_for)],
                       list.data)
    THEN [res |-> "IndexError", found |-> <<>>]
    ELSE [res |-> "ok",
          found |-> Sorted(list.search_index[external_id][SearchableText(look_for)])]

\* the elements of a list
Elements(l) == {l[n] : n \in 1..Len(l)}

\* list(a_set) for a set of small integers: they come in ascending order
RECURSIVE ListOfSet(_)
ListOfSet(S) ==
    IF S = {} THEN <<>>
    ELSE <<CHOOSE x \in S : \A y \in S : x <= y>>
         \o ListOfSet(S \ {CHOOSE x \in S : \A y \in S : x <= y})

\* intersection(*args) for one list or more: reduce returns a single list
\* as it is
RECURSIVE intersection(_)
intersection(args) ==
    IF Len(args) = 1 THEN args[1]
    ELSE ListOfSet(Elements(intersection(SubSeq(args, 1, Len(args) - 1)))
                   \cap Elements(args[Len(args)]))

\* union(*args) for one list or more
RECURSIVE union(_)
union(args) ==
    IF Len(args) = 1 THEN args[1]
    ELSE ListOfSet(Elements(union(SubSeq(args, 1, Len(args) - 1)))
                   \cup Elements(args[Len(args)]))

SEARCH_AND == 1
SEARCH_OR == 2

\* the list of the index lists found for the terms
ResultsIndexes(search_index, terms) ==
    [n \in 1..Len(terms) |->
        IF SearchableText(terms[n].val) \in DOMAIN search_index[terms[n].key]
        THEN search_index[terms[n].key][SearchableText(terms[n].val)]
        ELSE <<>>]

\* the end of search_multiple: the items at the indexes found
ResultItems(res, final_result_indexes, data) ==
    IF res /= "ok" THEN [res |-> res, found |-> <<>>]
    ELSE IF OutOfRange(final_result_indexes, data)
    THEN [res |-> "IndexError", found |-> <<>>]
    ELSE [res |-> "ok", found |-> final_result_indexes]

\* SearchableList.search_multiple: the positions of the items it returns;
\* terms holds the (external id, search term) pairs of the dict in order
search_multiple_result(list, terms, mode) ==
    IF Len(list.data) = 0 THEN [res |-> "ok", found |-> <<>>]
    ELSE IF /\ mode = SEARCH_AND
            /\ \E n \in 1..Len(terms) : terms[n].key \notin DOMAIN list.search_index
    THEN [res |-> "ok", found |-> <<>>]
    ELSE IF \E n \in 1..Len(terms) : terms[n].key \notin DOMAIN list.search_index
    THEN [res |-> "KeyError", found |-> <<>>]
    ELSE IF mode \notin {SEARCH_AND, SEARCH_OR}
    THEN [res |-> "UnboundLocalError", found |-> <<>>]
    ELSE IF Len(terms) = 0 THEN [res |-> "TypeError", found |-> <<>>]
    ELSE IF mode = SEARCH_AND
    THEN ResultItems("ok", intersection(ResultsIndexes(list.search_index, terms)),
                     list.data)
    ELSE ResultItems("ok", union(ResultsIndexes(list.search_index, terms)),
                     list.data)

\* every list of the index lists at most MaxAppended + 1 positions
IndexWithinBound(search_index) ==
    \A f \in DOMAIN search_index : \A t \in DOMAIN search_index[f] :
        Len(search_index[f][t]) <= MaxAppended + 1

\* SearchableList.append
SearchableList_append(item) ==
    /\ Len(searchable.data) < MaxAppended
    /\ \E r \in {make_searchable(searchable.search_index, Len(searchable.data),
                                 item, 1)} :
          /\ IndexWithinBound(r.search_index)
          /\ searchable' = [data |-> IF r.res = "ok"
                                     THEN Append(searchable.data, item)
                                     ELSE searchable.data,
                            search_index |-> r.search_index]
          /\ lastOp' = Op("append", r.res, <<>>, [item |-> item])
    /\ UNCHANGED <<rec, assigned, app_configs, cache_configs, cached_apps,
                   podio_app, inserted>>

\* SearchableList.remove, pop and insert
SearchableList_raise(method) ==
    /\ lastOp' = Op(method, "RuntimeError", <<>>, NoArg)
    /\ UNCHANGED <<rec, assigned, app_configs, cache_configs, cached_apps,
                   podio_app, inserted, searchable>>

\* SearchableList.search
SearchableList_search(external_id, look_for) ==
    /\ \E r \in {search_result(searchable, external_id, look_for)} :
          lastOp' = Op("search", r.res, <<>>,
                       [external_id |-> external_id, look_for |-> look_for,
                        found |-> r.found])
    /\ UNCHANGED <<rec, assigned, app_configs, cache_configs, cached_apps,
                   podio_app, inserted, searchable>>

\* SearchableList.search_multiple
SearchableList_search_multiple(terms, mode) ==
    /\ \E r \in {search_multiple_result(searchable, terms, mode)} :
          lastOp' = Op("search_multiple", r.res, <<>>,
                       [terms |-> terms, mode |-> mode, found |-> r.found])
    /\ UNCHANGED <<rec, assigned, app_configs, cache_configs, cached_apps,
                   podio_app, inserted, searchable>>

sSpXUp == <<" ", "X">>

\* the items appended: two whose field n has the same searchable text, one
\* with a further field, and one with a field of a type without mediator
SearchDocs == {MkDoc(1, AppId, sX), MkDoc(2, AppId, sSpXUp),
               HyphenDoc(3, AppId, sY), MoneyDoc(4, AppId, sY)}

\* the terms looked for
LookFors == {PyStr(sX), PyStr(sSpXUp), PyStr(sY)}

\* the dicts of search_multiple
SearchTerms ==
    {<<>>, <<[key |-> sN, val |-> PyStr(sX)]>>,
     <<[key |-> sN, val |-> PyStr(sX)], [key |-> sC, val |-> PyStr(sSpXUp)]>>,
     <<[key |-> sN, val |-> PyStr(sY)], [key |-> sC, val |-> PyStr(sY)]>>,
     <<[key |-> sN, val |-> PyStr(sX)], [key |-> sAB, val |-> PyStr(sY)]>>}

NextSearch ==
    \/ \E d \in SearchDocs : SearchableList_append(d)
    \/ \E m \in {"remove", "pop", "insert"} : SearchableList_raise(m)
    \/ \E f \in {sN, sAB, sZ}, v \in LookFors : SearchableList_search(f, v)
    \/ \E t \in SearchTerms, m \in {SEARCH_AND, SEARCH_OR, 3} :
          SearchableList_search_multiple(t, m)

SpecSearch == Init /\ [][NextSearch]_vars

(***************************************************************************)
(* Properties of SearchableList.                                           *)
(***************************************************************************)
\* the item at position i is listed for each of its fields under the
\* searchable text of its value, and under no other text of that field
C39_Listed(list) ==
    \A i \in 1..Len(list.data) : \A k \in 1..Len(list.data[i].fields) :
        \E f \in {list.data[i].fields[k].external_id} :
        \E t \in {SearchableText(ItemGet(list.data[i], f).val)} :
            /\ f \in DOMAIN list.search_index
            /\ t \in DOMAIN list.search_index[f]
            /\ \A u \in DOMAIN list.search_index[f] :
                  (i - 1) \in Elements(list.search_index[f][u]) <=> u = t

\* the positions of the items that have the field with a value of the
\* same searchable text as the term
C39_Matches(list, external_id, look_for) ==
    {p \in 0..(Len(list.data) - 1) :
        \E k \in 1..Len(list.data[p + 1].fields) :
            /\ list.data[p + 1].fields[k].external_id = external_id
            /\ SearchableText(ItemGet(list.data[p + 1], external_id).val)
                  = SearchableText(look_for)}

\* C39: remove, pop and insert raise and leave list and index unchanged;
\* after any appends every item is listed in the index of each of its
\* fields under the searchable text of its value and under no other; and
\* search returns the items with the searched text in insertion order.
C39_AppendOnlyIndex ==
    [][/\ lastOp'.op \in {"remove", "pop", "insert"}
          => /\ lastOp'.res = "RuntimeError"
             /\ searchable' = searchable
       /\ C39_Listed(searchable')
       /\ lastOp'.op = "search"
          => /\ lastOp'.res = "ok"
             /\ lastOp'.arg.found
                   = ListOfSet(C39_Matches(searchable, lastOp'.arg.external_id,
                                           lastOp'.arg.look_for))]_vars

\* lists of integers to intersect and unite
C40_Lists == {<<>>, <<1, 2>>, <<2, 3>>, <<2, 4, 5>>}

\* no element twice
C40_Distinct(l) == \A i, j \in 1..Len(l) : l[i] = l[j] => i = j

\* C40: search_multiple returns a list and never raises, for any fields and
\* terms: in AND mode the items matching every term (none when a field is
\* unknown to the index), in OR mode the items matching at least one term,
\* the terms of unknown fields matching nothing; intersection and union of
\* lists return the common, respectively all distinct, elements.
C40_SearchMultiple ==
    /\ (lastOp.op = "search_multiple"
        /\ lastOp.arg.mode \in {SEARCH_AND, SEARCH_OR})
       => /\ lastOp.res = "ok"
          /\ lastOp.arg.mode = SEARCH_AND
             => Elements(lastOp.arg.found)
                   = {p \in 0..(Len(searchable.data) - 1) :
                        \A n \in 1..Len(lastOp.arg.terms) :
                           p \in C39_Matches(searchable, lastOp.arg.terms[n].key,
                                             lastOp.arg.terms[n].val)}
          /\ lastOp.arg.mode = SEARCH_OR
             => Elements(lastOp.arg.found)
                   = {p \in 0..(Len(searchable.data) - 1) :
                        \E n \in 1..Len(lastOp.arg.terms) :
                           p \in C39_Matches(searchable, lastOp.arg.terms[n].key,
                                             lastOp.arg.terms[n].val)}
    /\ \A a \in C40_Lists, b \in C40_Lists, c \in C40_Lists :
          /\ Elements(intersection(<<a, b, c>>))
                = Elements(a) \cap Elements(b) \cap Elements(c)
          /\ Elements(union(<<a, b>>)) = Elements(a) \cup Elements(b)
          /\ C40_Distinct(intersection(<<a, b, c>>))
          /\ C40_Distinct(union(<<a, b>>))

====
